---- MODULE Spec2Model ----
(***************************************************************************)
(* A model of the VEIL transport engine: the replay window, the reorder    *)
(* buffer, the three-message handshake and the transport session that      *)
(* composes them, with the ack bitmap, the retransmission manager and the  *)
(* fragment assembler it uses.  Every component has specifications of its  *)
(* own; the variables of the components a specification does not exercise  *)
(* stay at their initial values.                                           *)
(***************************************************************************)
EXTENDS Integers, Sequences, FiniteSets, TLC

VARIABLES rw, rw_accepted, rw_last,
          rb, rb_log, rb_last,
          hs, hs_net, hs_now, hs_injected, hs_last,
          sess, ts_now, ts_last, ts_env, ts_calls,
          pr, pr_net,
          ab, ab_marked, ab_tracked, ab_calls, ab_last,
          rt, rt_now, rt_env, rt_hist, rt_last,
          fa, fa_hist, fa_last,
          rl, rl_log,
          pk, pk_last,
          fd

rwVars == <<rw, rw_accepted, rw_last>>
rbVars == <<rb, rb_log, rb_last>>
hsVars == <<hs, hs_net, hs_now, hs_injected, hs_last>>
tsVars == <<sess, ts_now, ts_last, ts_env, ts_calls>>
prVars == <<pr, pr_net>>
abVars == <<ab, ab_marked, ab_tracked, ab_calls, ab_last>>
rtVars == <<rt, rt_now, rt_env, rt_hist, rt_last>>
faVars == <<fa, fa_hist, fa_last>>
muxVars == <<abVars, rtVars, faVars>>
rlVars == <<rl, rl_log>>
pkVars == <<pk, pk_last>>
fdVars == <<fd>>
extVars == <<rlVars, pkVars, fdVars>>

(***************************************************************************)
(* Machine integers.  The counters of the source are uint64_t; the model   *)
(* keeps the wrap-around of unsigned arithmetic at a width of WordBits     *)
(* bits, wide enough for the 64-entry windows to slide and to wrap.        *)
(***************************************************************************)
WordBits == 8

WordMod == 2 ^ WordBits

WordMax == WordMod - 1

\* unsigned subtraction a - b
USub(a, b) == (a - b + WordMod) % WordMod

\* unsigned addition a + b
UAdd(a, b) == (a + b) % WordMod

EmptyMap == [x \in {} |-> 0]

MinOf(S) == CHOOSE x \in S : \A y \in S : x <= y

(***************************************************************************)
(* ReplayWindow (src/src/mux/replay_window.cpp).  bitmap_ is the set of    *)
(* its set bit positions: bit i stands for counter highest_seq_ - i - 1.   *)
(***************************************************************************)
WINDOW_SIZE == 64

ReplayWindowInit == [highest_seq |-> 0, bitmap |-> {}, initialized |-> FALSE]

\* uint64_t << shift, for shift < 64: the bits pushed past bit 63 are lost
ShiftLeft(bits, shift) == {b + shift : b \in {x \in bits : x + shift < WINDOW_SIZE}}

ReplayCheck(w, seq) ==
    IF ~w.initialized THEN TRUE
    ELSE IF UAdd(seq, WINDOW_SIZE) <= w.highest_seq THEN FALSE
    ELSE IF seq > w.highest_seq THEN TRUE
    ELSE IF seq = w.highest_seq THEN FALSE
    ELSE LET diff == USub(USub(w.highest_seq, seq), 1)
         IN  IF diff < WINDOW_SIZE THEN diff \notin w.bitmap ELSE FALSE

ReplayUpdateNoOldHighest(w, seq) ==
    IF ~w.initialized
    THEN [highest_seq |-> seq, bitmap |-> {}, initialized |-> TRUE]
    ELSE IF seq > w.highest_seq
    THEN LET shift == USub(seq, w.highest_seq)
         IN  [w EXCEPT !.bitmap = IF shift >= WINDOW_SIZE THEN {}
                                  ELSE ShiftLeft(@, shift),
                       !.highest_seq = seq]
    ELSE IF seq < w.highest_seq
    THEN LET diff == USub(USub(w.highest_seq, seq), 1)
         IN  IF diff < WINDOW_SIZE THEN [w EXCEPT !.bitmap = @ \cup {diff}] ELSE w
    ELSE w

ReplayUpdate(w, seq) ==
    IF ~w.initialized
    THEN [highest_seq |-> seq, bitmap |-> {}, initialized |-> TRUE]
    ELSE IF seq > w.highest_seq
    THEN LET shift == USub(seq, w.highest_seq)
         IN  [w EXCEPT !.bitmap = IF shift >= WINDOW_SIZE THEN {}
                                  ELSE ShiftLeft(@, shift) \cup {shift - 1},
                       !.highest_seq = seq]
    ELSE IF seq < w.highest_seq
    THEN LET diff == USub(USub(w.highest_seq, seq), 1)
         IN  IF diff < WINDOW_SIZE THEN [w EXCEPT !.bitmap = @ \cup {diff}] ELSE w
    ELSE w

\* check_and_update: the window after the call (unchanged when rejected)
ReplayCheckAndUpdate(w, seq) == IF ReplayCheck(w, seq) THEN ReplayUpdate(w, seq) ELSE w

\* The counters the replay-window specification offers: around 0, around the
\* window edge, and up to the largest representable counter.
RWSpread == 3

RWInputs ==
    (0 .. RWSpread) \cup ((WINDOW_SIZE - 1) .. (WINDOW_SIZE + RWSpread))
        \cup ((WordMax - RWSpread) .. WordMax)

RWInit ==
    /\ rw = ReplayWindowInit
    /\ rw_accepted = {}
    /\ rw_last = [op |-> "none", seq |-> 0, ok |-> FALSE]

RWCheckAndUpdate ==
    \E seq \in RWInputs :
        /\ rw' = ReplayCheckAndUpdate(rw, seq)
        /\ rw_accepted' = IF ReplayCheck(rw, seq) THEN rw_accepted \cup {seq} ELSE rw_accepted
        /\ rw_last' = [op |-> "check_and_update", seq |-> seq, ok |-> ReplayCheck(rw, seq)]
        /\ UNCHANGED <<rbVars, hsVars, tsVars, prVars, muxVars, extVars>>

(***************************************************************************)
(* ReorderBuffer (src/src/mux/reorder_buffer.cpp).  buffer_ is a map from  *)
(* sequence to [size, ts]; a payload is modelled by its size.              *)
(***************************************************************************)
RBMaxPackets == 3

RBMaxBytes == 5

RBMaxDelay == 2

ReorderBufferInit(cb) ==
    [buffer |-> EmptyMap, next_expected |-> 1, buffered_bytes |-> 0, callback |-> cb]

MapRemove(m, k) == [x \in DOMAIN m \ {k} |-> m[x]]

MapPut(m, k, v) == [x \in DOMAIN m \cup {k} |-> IF x = k THEN v ELSE m[x]]

ReorderInsertNoOldCheck(b, seq, size, ts) ==
    IF seq \in DOMAIN b.buffer THEN b
    ELSE IF Cardinality(DOMAIN b.buffer) >= RBMaxPackets THEN b
    ELSE IF b.buffered_bytes + size > RBMaxBytes THEN b
    ELSE [b EXCEPT !.buffered_bytes = @ + size,
                   !.buffer = MapPut(@, seq, [size |-> size, ts |-> ts])]

\* insert(): the buffer after the call
ReorderInsert(b, seq, size, ts) ==
    IF seq < b.next_expected \/ seq \in DOMAIN b.buffer THEN b
    ELSE IF Cardinality(DOMAIN b.buffer) >= RBMaxPackets THEN b
    ELSE IF b.buffered_bytes + size > RBMaxBytes THEN b
    ELSE [b EXCEPT !.buffered_bytes = @ + size,
                   !.buffer = MapPut(@, seq, [size |-> size, ts |-> ts])]

\* The size the code subtracts from buffered_bytes_ after the callback ran:
\* the payload was moved into the callback's by-value parameter, so the
\* vector left in the map is empty; without a callback it is intact.
SizeAfterCallback(b, e) == IF b.callback THEN 0 ELSE e.size

ReorderDeliverOnce(b) ==
    IF b.next_expected \in DOMAIN b.buffer
    THEN LET e == b.buffer[b.next_expected]
         IN  [b |-> [b EXCEPT !.buffered_bytes = @ - SizeAfterCallback(b, e),
                              !.buffer = MapRemove(@, b.next_expected),
                              !.next_expected = @ + 1],
              out |-> IF b.callback THEN <<b.next_expected>> ELSE <<>>]
    ELSE [b |-> b, out |-> <<>>]

RECURSIVE ReorderDeliver(_)
\* deliver(): [b |-> the buffer after the call, out |-> the sequences handed
\* to the callback, in order]
ReorderDeliver(b) ==
    IF b.next_expected \in DOMAIN b.buffer
    THEN LET e == b.buffer[b.next_expected]
             b1 == [b EXCEPT !.buffered_bytes = @ - SizeAfterCallback(b, e),
                             !.buffer = MapRemove(@, b.next_expected),
                             !.next_expected = @ + 1]
             r == ReorderDeliver(b1)
         IN  [b |-> r.b,
              out |-> (IF b.callback THEN <<b.next_expected>> ELSE <<>>) \o r.out]
    ELSE [b |-> b, out |-> <<>>]

RECURSIVE ReorderFlushLoop(_, _)
\* the while loop of flush()
ReorderFlushLoop(b, now) ==
    IF DOMAIN b.buffer = {} THEN [b |-> b, out |-> <<>>]
    ELSE LET first == MinOf(DOMAIN b.buffer)
             e == b.buffer[first]
         IN  IF USub(now, e.ts) < RBMaxDelay THEN [b |-> b, out |-> <<>>]
             ELSE LET b1 == [b EXCEPT !.buffered_bytes = @ - SizeAfterCallback(b, e),
                                      !.next_expected = first + 1,
                                      !.buffer = MapRemove(@, first)]
                      d == ReorderDeliver(b1)
                      r == ReorderFlushLoop(d.b, now)
                  IN  [b |-> r.b,
                       out |-> (IF b.callback THEN <<first>> ELSE <<>>) \o d.out \o r.out]

\* flush(now)
ReorderFlush(b, now) ==
    LET d == ReorderDeliver(b)
        r == ReorderFlushLoop(d.b, now)
    IN  [b |-> r.b, out |-> d.out \o r.out]

RBMaxSeq == 4

RBMaxTime == 2

RBMaxLog == 5

RBSeqs == 0 .. RBMaxSeq

RBSizes == 1 .. 2

RBTimes == 0 .. RBMaxTime

RBInit ==
    /\ \E cb \in BOOLEAN : rb = ReorderBufferInit(cb)
    /\ rb_log = <<>>
    /\ rb_last = [op |-> "none", seq |-> 0, out |-> <<>>]

RBInsert ==
    \E seq \in RBSeqs, size \in RBSizes, ts \in RBTimes :
        /\ rb' = ReorderInsert(rb, seq, size, ts)
        /\ rb_last' = [op |-> "insert", seq |-> seq, out |-> <<>>]
        /\ UNCHANGED <<rb_log, rwVars, hsVars, tsVars, prVars, muxVars, extVars>>

RBDeliver ==
    LET r == ReorderDeliver(rb)
    IN  /\ Len(rb_log) + Len(r.out) <= RBMaxLog
        /\ rb' = r.b
        /\ rb_log' = rb_log \o r.out
        /\ rb_last' = [op |-> "deliver", seq |-> rb.next_expected, out |-> r.out]
        /\ UNCHANGED <<rwVars, hsVars, tsVars, prVars, muxVars, extVars>>

RBFlush ==
    \E now \in RBTimes :
        LET r == ReorderFlush(rb, now)
        IN  /\ Len(rb_log) + Len(r.out) <= RBMaxLog
            /\ rb' = r.b
            /\ rb_log' = rb_log \o r.out
            /\ rb_last' = [op |-> "flush", seq |-> rb.next_expected, out |-> r.out]
            /\ UNCHANGED <<rwVars, hsVars, tsVars, prVars, muxVars, extVars>>

\* The reorder-buffer part of TransportSession::handle_data_frame: insert,
\* then deliver
RBHandleData ==
    \E seq \in RBSeqs, size \in RBSizes, ts \in RBTimes :
        LET r == ReorderDeliver(ReorderInsert(rb, seq, size, ts))
        IN  /\ Len(rb_log) + Len(r.out) <= RBMaxLog
            /\ rb' = r.b
            /\ rb_log' = rb_log \o r.out
            /\ rb_last' = [op |-> "handle_data_frame", seq |-> seq, out |-> r.out]
            /\ UNCHANGED <<rwVars, hsVars, tsVars, prVars, muxVars, extVars>>

(***************************************************************************)
(* Handshake (src/src/handshake/handshake.cpp).  The cryptography is       *)
(* symbolic: an HMAC is the pair of its key and its input, an X25519       *)
(* shared secret is the set of the two key pairs that produced it, and an  *)
(* HKDF output is the pair of its label and its pseudo-random key.  A key  *)
(* pair is named by a number, which is also the order of its public key    *)
(* under memcmp; public key 0 is the all-zero (low order) point.           *)
(***************************************************************************)
MSG_INIT == 1

MSG_RESPONSE == 2

MSG_FINISH == 3

NKeys == 2

HSMaxTime == 2

HSTolerance == 1

HSMaxTranscript == 3

HSMaxInjected == 1

Endpoints == {"A", "B"}

KeyPairs == 1 .. NKeys

WeakKey == 0

NoValue == [none |-> TRUE]

\* the PSK both endpoints are configured with, and the key of an outsider
PSK == "psk"

OtherPSK == "other"

hmac_sha256(key, data) == [key |-> key, data |-> data]

\* crypto::key_exchange: nullopt on a low-order peer key
key_exchange(our_secret, their_public) ==
    IF their_public = WeakKey THEN NoValue ELSE [dh |-> {our_secret, their_public}]

hkdf_extract(salt, ikm) == [salt |-> salt, ikm |-> ikm]

hkdf_expand(prk, info) == [info |-> info, prk |-> prk]

derive_session_keys(shared_secret, session_id, is_initiator) ==
    LET prk == hkdf_extract(session_id, shared_secret)
        key_i2r == hkdf_expand(prk, "veil_v1_key_i2r")
        key_r2i == hkdf_expand(prk, "veil_v1_key_r2i")
        nonce_i2r == hkdf_expand(prk, "veil_v1_nonce_i2r")
        nonce_r2i == hkdf_expand(prk, "veil_v1_nonce_r2i")
    IN  [send_key |-> IF is_initiator THEN key_i2r ELSE key_r2i,
         recv_key |-> IF is_initiator THEN key_r2i ELSE key_i2r,
         send_nonce_base |-> IF is_initiator THEN nonce_i2r ELSE nonce_r2i,
         recv_nonce_base |-> IF is_initiator THEN nonce_r2i ELSE nonce_i2r]

\* A handshake message on the wire.  len_ok says that the byte string is at
\* least a header and an HMAC long and as long as its payload_len field says.
HSMessage(type, ts, payload, mackey) ==
    [type |-> type, ts |-> ts, payload |-> payload, len_ok |-> TRUE,
     hmac |-> hmac_sha256(mackey, <<type, ts, payload>>)]

HandshakeInit(kp) ==
    [state |-> "IDLE", last_error |-> "NONE", our_keypair |-> kp,
     peer_public_key |-> WeakKey, shared_secret |-> NoValue,
     session_id |-> NoValue, transcript |-> <<>>]

\* build_message: the message, appended to the transcript
build_message(h, type, payload, now) ==
    LET msg == HSMessage(type, now, payload, PSK)
    IN  [h |-> [h EXCEPT !.transcript = Append(@, msg)], msg |-> msg]

derive_session_id(h) == [h EXCEPT !.session_id = hmac_sha256(PSK, h.transcript)]

\* Each handler returns [h |-> the handshake after the call, out |-> the
\* messages handed to the send callback, ret |-> the return value].
Fail(h, err) == [h |-> [h EXCEPT !.last_error = err], out |-> <<>>, ret |-> FALSE]

initiate(h, now) ==
    IF h.state # "IDLE" THEN Fail(h, "INTERNAL_ERROR")
    ELSE LET b == build_message(h, MSG_INIT, <<h.our_keypair>>, now)
         IN  [h |-> [b.h EXCEPT !.state = "INIT_SENT"], out |-> <<b.msg>>, ret |-> TRUE]

handle_init(h, payload, now) ==
    IF h.state # "IDLE" THEN Fail(h, "INVALID_MESSAGE")
    ELSE IF Len(payload) # 1 THEN Fail(h, "INVALID_MESSAGE")
    ELSE LET h1 == [h EXCEPT !.peer_public_key = payload[1]]
             shared == key_exchange(h.our_keypair, payload[1])
         IN  IF shared = NoValue THEN Fail(h1, "KEY_EXCHANGE_FAILED")
             ELSE LET b == build_message([h1 EXCEPT !.shared_secret = shared],
                                         MSG_RESPONSE, <<h.our_keypair>>, now)
                  IN  [h |-> [b.h EXCEPT !.state = "RESPONSE_SENT"],
                       out |-> <<b.msg>>, ret |-> FALSE]

handle_response(h, payload, now) ==
    IF h.state # "INIT_SENT" THEN Fail(h, "INVALID_MESSAGE")
    ELSE IF Len(payload) # 1 THEN Fail(h, "INVALID_MESSAGE")
    ELSE LET h1 == [h EXCEPT !.peer_public_key = payload[1]]
             shared == key_exchange(h.our_keypair, payload[1])
         IN  IF shared = NoValue THEN Fail(h1, "KEY_EXCHANGE_FAILED")
             ELSE LET b == build_message([h1 EXCEPT !.shared_secret = shared],
                                         MSG_FINISH, <<>>, now)
                  IN  [h |-> [derive_session_id(b.h) EXCEPT !.state = "COMPLETE"],
                       out |-> <<b.msg>>, ret |-> TRUE]

handle_finishAnyState(h, payload, now) ==
    [h |-> [derive_session_id(h) EXCEPT !.state = "COMPLETE"], out |-> <<>>, ret |-> TRUE]

handle_finish(h, payload, now) ==
    IF h.state # "RESPONSE_SENT" THEN Fail(h, "INVALID_MESSAGE")
    ELSE [h |-> [derive_session_id(h) EXCEPT !.state = "COMPLETE"],
          out |-> <<>>, ret |-> TRUE]

AbsDiff(a, b) == IF a > b THEN a - b ELSE b - a

\* where process_message appends a verified message to the transcript
AppendVerified(h, message) == [h EXCEPT !.transcript = Append(@, message)]

AppendVerifiedIfLegal(h, message) ==
    IF \/ message.type = MSG_INIT /\ h.state = "IDLE"
       \/ message.type = MSG_RESPONSE /\ h.state = "INIT_SENT"
       \/ message.type = MSG_FINISH /\ h.state = "RESPONSE_SENT"
    THEN [h EXCEPT !.transcript = Append(@, message)]
    ELSE h

process_message(h, message, now) ==
    IF ~message.len_ok THEN Fail(h, "INVALID_MESSAGE")
    ELSE IF AbsDiff(message.ts, now) > HSTolerance THEN Fail(h, "TIMESTAMP_OUT_OF_RANGE")
    ELSE IF message.hmac # hmac_sha256(PSK, <<message.type, message.ts, message.payload>>)
    THEN Fail(h, "HMAC_VERIFICATION_FAILED")
    ELSE LET h1 == AppendVerified(h, message)
         IN  IF message.type = MSG_INIT THEN handle_init(h1, message.payload, now)
             ELSE IF message.type = MSG_RESPONSE THEN handle_response(h1, message.payload, now)
             ELSE IF message.type = MSG_FINISH THEN handle_finish(h1, message.payload, now)
             ELSE Fail(h1, "INVALID_MESSAGE")

\* Handshake::result(): NoValue stands for std::nullopt
result(h) ==
    IF h.state # "COMPLETE" \/ h.shared_secret = NoValue THEN NoValue
    ELSE LET is_initiator == h.our_keypair < h.peer_public_key
         IN  [session_id |-> h.session_id,
              is_initiator |-> is_initiator,
              session_keys |-> derive_session_keys(h.shared_secret, h.session_id, is_initiator)]

\* What an outsider without the PSK, or a sender of damaged bytes, can put on
\* the wire at time now.
HSForged(now) ==
    {HSMessage(MSG_INIT, now, <<1>>, OtherPSK),
     [HSMessage(MSG_FINISH, now, <<>>, PSK) EXCEPT !.len_ok = FALSE]}

\* What a holder of the PSK that does not follow the protocol can send: a
\* low-order public key, a message of a type that does not exist, and a
\* RESPONSE or a FINISH that nothing asked for.
HSInsider(now) ==
    {HSMessage(MSG_INIT, now, <<WeakKey>>, PSK),
     HSMessage(MSG_RESPONSE, now, <<WeakKey>>, PSK),
     HSMessage(4, now, <<>>, PSK),
     HSMessage(MSG_RESPONSE, now, <<1>>, PSK),
     HSMessage(MSG_FINISH, now, <<>>, PSK)}

HSInit ==
    /\ hs \in [Endpoints -> {HandshakeInit(k) : k \in KeyPairs}]
    /\ hs_net = {}
    /\ hs_now = 0
    /\ hs_injected = 0
    /\ hs_last = [op |-> "none", ep |-> "A", ret |-> FALSE, type |-> 0, from |-> "IDLE"]

HSInitiate ==
    \E e \in Endpoints :
        LET r == initiate(hs[e], hs_now)
        IN  /\ hs' = [hs EXCEPT ![e] = r.h]
            /\ hs_net' = hs_net \cup {r.out[i] : i \in 1 .. Len(r.out)}
            /\ hs_last' = [op |-> "initiate", ep |-> e, ret |-> r.ret, type |-> 0,
                            from |-> hs[e].state]
            /\ UNCHANGED <<hs_now, hs_injected, rwVars, rbVars, tsVars, prVars, muxVars, extVars>>

\* The network hands to an endpoint any message ever sent (to it or by it,
\* for the first time or again).
HSProcessMessage ==
    \E e \in Endpoints, m \in hs_net :
        LET r == process_message(hs[e], m, hs_now)
        IN  /\ Len(hs[e].transcript) < HSMaxTranscript
            /\ hs' = [hs EXCEPT ![e] = r.h]
            /\ hs_net' = hs_net \cup {r.out[i] : i \in 1 .. Len(r.out)}
            /\ hs_last' = [op |-> "process_message", ep |-> e, ret |-> r.ret,
                            type |-> m.type, from |-> hs[e].state]
            /\ UNCHANGED <<hs_now, hs_injected, rwVars, rbVars, tsVars, prVars, muxVars, extVars>>

\* The network hands to an endpoint bytes of a third party.
HSInject ==
    \E e \in Endpoints, m \in HSForged(hs_now) \cup HSInsider(hs_now) :
        LET r == process_message(hs[e], m, hs_now)
        IN  /\ Len(hs[e].transcript) < HSMaxTranscript
            /\ hs_injected < HSMaxInjected
            /\ hs_injected' = hs_injected + 1
            /\ hs' = [hs EXCEPT ![e] = r.h]
            /\ hs_net' = hs_net \cup {r.out[i] : i \in 1 .. Len(r.out)}
            /\ hs_last' = [op |-> "inject", ep |-> e, ret |-> r.ret,
                            type |-> m.type, from |-> hs[e].state]
            /\ UNCHANGED <<hs_now, rwVars, rbVars, tsVars, prVars, muxVars, extVars>>

HSTick ==
    /\ hs_now < HSMaxTime
    /\ hs_now' = hs_now + 1
    /\ hs_last' = [op |-> "tick", ep |-> "A", ret |-> FALSE, type |-> 0, from |-> "IDLE"]
    /\ UNCHANGED <<hs, hs_net, hs_injected, rwVars, rbVars, tsVars, prVars, muxVars, extVars>>

(***************************************************************************)
(* AckBitmap (src/src/mux/ack_bitmap.cpp): bitmap_ is the set of its set   *)
(* bit positions, bit i standing for sequence ack_number_ + 1 + i.         *)
(***************************************************************************)
BITMAP_SIZE == 64

AckBitmapInit == [ack_number |-> 0, bitmap |-> {}, initialized |-> FALSE]

\* bitmap_ >>= 1
ShiftRight1(bits) == {b - 1 : b \in {x \in bits : x >= 1}}

RECURSIVE AckAbsorb(_)
\* while (bitmap_ & 1) { bitmap_ >>= 1; ++ack_number_; }
AckAbsorb(a) ==
    IF 0 \in a.bitmap
    THEN AckAbsorb([a EXCEPT !.bitmap = ShiftRight1(@), !.ack_number = UAdd(@, 1)])
    ELSE a

mark_receivedNoShift(a, seq) ==
    IF ~a.initialized THEN [ack_number |-> seq, bitmap |-> {}, initialized |-> TRUE]
    ELSE IF seq <= a.ack_number THEN a
    ELSE IF seq = UAdd(a.ack_number, 1)
    THEN AckAbsorb([a EXCEPT !.ack_number = seq])
    ELSE LET offset == USub(USub(seq, a.ack_number), 1)
         IN  IF offset < BITMAP_SIZE THEN [a EXCEPT !.bitmap = @ \cup {offset}] ELSE a

mark_received(a, seq) ==
    IF ~a.initialized THEN [ack_number |-> seq, bitmap |-> {}, initialized |-> TRUE]
    ELSE IF seq <= a.ack_number THEN a
    ELSE IF seq = UAdd(a.ack_number, 1)
    THEN AckAbsorb([a EXCEPT !.ack_number = seq, !.bitmap = ShiftRight1(@)])
    ELSE LET offset == USub(USub(seq, a.ack_number), 1)
         IN  IF offset < BITMAP_SIZE THEN [a EXCEPT !.bitmap = @ \cup {offset}] ELSE a

\* The sequences the ack-bitmap specification marks: the first few, the ones
\* around the far edge of the bitmap, and the largest representable ones.
ABSpread == 5

ABMaxCalls == 5

ABInputs(a) ==
    (0 .. ABSpread)
        \cup {UAdd(a.ack_number, d) : d \in (BITMAP_SIZE - 1) .. (BITMAP_SIZE + 1)}
        \cup {WordMax - 1, WordMax}

\* ab_marked holds every sequence passed to mark_received, ab_tracked the
\* ones passed while the bitmap had a bit for them (the tracker initialized
\* and the sequence at most BITMAP_SIZE past ack_number_).
ABInit ==
    /\ ab = AckBitmapInit
    /\ ab_marked = {}
    /\ ab_tracked = {}
    /\ ab_calls = 0
    /\ ab_last = [op |-> "none", seq |-> 0, ack_before |-> 0, initialized |-> FALSE]

ABMarkReceived ==
    \E seq \in ABInputs(ab) :
        /\ ab_calls < ABMaxCalls
        /\ ab_calls' = ab_calls + 1
        /\ ab' = mark_received(ab, seq)
        /\ ab_marked' = ab_marked \cup {seq}
        /\ ab_tracked' = IF ab.initialized /\ seq > ab.ack_number
                             /\ seq - ab.ack_number - 1 < BITMAP_SIZE
                          THEN ab_tracked \cup {seq} ELSE ab_tracked
        /\ ab_last' = [op |-> "mark_received", seq |-> seq, ack_before |-> ab.ack_number,
                        initialized |-> ab.initialized]
        /\ UNCHANGED <<rwVars, rbVars, hsVars, tsVars, prVars, extVars, rtVars, faVars>>

(***************************************************************************)
(* RateLimiter (src/src/mux/rate_limiter.cpp).  A limiter is [config,      *)
(* packet_tokens, byte_tokens, last_refill_time_ms]; the drop statistics   *)
(* are left out.  In the sessions the clock counts milliseconds, every     *)
(* frame counts as one byte and the two buckets have the same size and     *)
(* rate, TSRefillPerTick tokens per millisecond.                           *)
(***************************************************************************)
TSBurstPackets == 3

TSRefillPerTick == 1

MsPerSecond == 1000

RateLimiterConfig(pps, bps, packets, bytes) ==
    [packets_per_second |-> pps, bytes_per_second |-> bps,
     burst_packets |-> packets, burst_bytes |-> bytes]

\* The limiter configuration of the modelled sessions
TSRateLimiter ==
    RateLimiterConfig(TSRefillPerTick * MsPerSecond, TSRefillPerTick * MsPerSecond,
                      TSBurstPackets, TSBurstPackets)

RateLimiterInit(config) ==
    [config |-> config, packet_tokens |-> config.burst_packets,
     byte_tokens |-> config.burst_bytes, last_refill_time_ms |-> 0]

\* check()
RateCheck(r, packet_bytes) == r.packet_tokens >= 1 /\ r.byte_tokens >= packet_bytes

consume(r, packet_bytes) ==
    [r EXCEPT !.packet_tokens = IF @ > 0 THEN @ - 1 ELSE @,
              !.byte_tokens = IF @ >= packet_bytes THEN @ - packet_bytes ELSE 0]

\* try_consume: the limiter after the call (check() decides the return value)
try_consume(r, packet_bytes) ==
    IF ~RateCheck(r, packet_bytes) THEN r ELSE consume(r, packet_bytes)

Min(a, b) == IF a < b THEN a ELSE b

Max(a, b) == IF a > b THEN a ELSE b

refillNoCap(r, elapsed_ms) ==
    IF elapsed_ms = 0 THEN r
    ELSE LET packet_add == (r.config.packets_per_second * elapsed_ms) \div MsPerSecond
             byte_add == (r.config.bytes_per_second * elapsed_ms) \div MsPerSecond
         IN  [r EXCEPT !.packet_tokens = @ + packet_add, !.byte_tokens = @ + byte_add]

refill(r, elapsed_ms) ==
    IF elapsed_ms = 0 THEN r
    ELSE LET packet_add == (r.config.packets_per_second * elapsed_ms) \div MsPerSecond
             byte_add == (r.config.bytes_per_second * elapsed_ms) \div MsPerSecond
         IN  [r EXCEPT !.packet_tokens = Min(@ + packet_add, r.config.burst_packets),
                       !.byte_tokens = Min(@ + byte_add, r.config.burst_bytes)]

refill_now(r, now_ms) ==
    IF now_ms > r.last_refill_time_ms
    THEN [refill(r, now_ms - r.last_refill_time_ms) EXCEPT !.last_refill_time_ms = now_ms]
    ELSE r

(***************************************************************************)
(* The limiter on its own: try_consume with packets of any size and        *)
(* refill with any elapsed time, in any order.  rl_log lists the calls     *)
(* with what each admitted: [elapsed, packets, bytes].                     *)
(***************************************************************************)
RLMaxCalls == 6

\* two packets and four bytes a second, bursts of two packets and three bytes
RLConfig == RateLimiterConfig(2, 4, 2, 3)

RLSizes == {0, 2, 3}

\* elapsed times that add nothing, less than a token, one token, a second's
\* worth and more than a second's worth
RLElapsed == {0, 499, 500, MsPerSecond, 2 * MsPerSecond}

RLEvent(elapsed, packets, bytes) == [elapsed |-> elapsed, packets |-> packets, bytes |-> bytes]

RLInitWith(config) ==
    /\ rl = RateLimiterInit(config)
    /\ rl_log = <<>>

RLTryConsume ==
    \E packet_bytes \in RLSizes :
        /\ Len(rl_log) < RLMaxCalls
        /\ rl' = try_consume(rl, packet_bytes)
        /\ rl_log' = Append(rl_log, IF RateCheck(rl, packet_bytes)
                                    THEN RLEvent(0, 1, packet_bytes)
                                    ELSE RLEvent(0, 0, 0))
        /\ UNCHANGED <<rwVars, rbVars, hsVars, tsVars, prVars, muxVars, pkVars, fdVars>>

RLRefill ==
    \E elapsed_ms \in RLElapsed :
        /\ Len(rl_log) < RLMaxCalls
        /\ rl' = refill(rl, elapsed_ms)
        /\ rl_log' = Append(rl_log, RLEvent(elapsed_ms, 0, 0))
        /\ UNCHANGED <<rwVars, rbVars, hsVars, tsVars, prVars, muxVars, pkVars, fdVars>>

(***************************************************************************)
(* RetransmissionManager (src/src/mux/retransmission.cpp).  unacked_ maps  *)
(* the key a packet was registered under to [data, size, send_time_ms,     *)
(* last_sent_ms, retransmit_count], size being data.size().  The manager   *)
(* keeps its configuration in config.                                      *)
(***************************************************************************)
TSInitialRto == 1

TSMinRto == 1

TSMaxRto == 2

TSMaxRetries == 1

TSMaxUnacked == 2

TSMaxUnackedBytes == 2

\* RetransmissionConfig, the fields the manager reads (rtt_alpha and rtt_beta
\* keep their defaults 1/8 and 1/4)
RetransmissionConfig(initial_rto, min_rto, max_rto, retries, packets, bytes) ==
    [initial_rto_ms |-> initial_rto, min_rto_ms |-> min_rto, max_rto_ms |-> max_rto,
     max_retries |-> retries, max_unacked_packets |-> packets, max_unacked_bytes |-> bytes]

\* the configuration of the session's manager, scaled to a clock of few ticks
TSRetransmission ==
    RetransmissionConfig(TSInitialRto, TSMinRto, TSMaxRto, TSMaxRetries, TSMaxUnacked,
                         TSMaxUnackedBytes)

RetransmissionInit(config) ==
    [config |-> config, unacked |-> EmptyMap, unacked_bytes |-> 0,
     rto_ms |-> config.initial_rto_ms, srtt_ms |-> 0, rttvar_ms |-> 0,
     rtt_initialized |-> FALSE, total_retransmits |-> 0, total_drops |-> 0]

\* the checks of register_packet, in the order the code makes them
RegisterRejects(r, seq, size) ==
    \/ Cardinality(DOMAIN r.unacked) >= r.config.max_unacked_packets
    \/ r.unacked_bytes + size > r.config.max_unacked_bytes
    \/ seq \in DOMAIN r.unacked

register_packetNoByteCap(r, seq, data, size, send_time_ms) ==
    IF Cardinality(DOMAIN r.unacked) >= r.config.max_unacked_packets
          \/ seq \in DOMAIN r.unacked
    THEN r
    ELSE [r EXCEPT !.unacked_bytes = @ + size,
                   !.unacked = MapPut(@, seq,
                       [data |-> data, size |-> size, send_time_ms |-> send_time_ms,
                        last_sent_ms |-> send_time_ms, retransmit_count |-> 0])]

\* register_packet: data is what the packet holds and size is data.size();
\* the call returns ~RegisterRejects(r, seq, size)
register_packet(r, seq, data, size, send_time_ms) ==
    IF RegisterRejects(r, seq, size) THEN r
    ELSE [r EXCEPT !.unacked_bytes = @ + size,
                   !.unacked = MapPut(@, seq,
                       [data |-> data, size |-> size, send_time_ms |-> send_time_ms,
                        last_sent_ms |-> send_time_ms, retransmit_count |-> 0])]

update_rttNoClamp(r, rtt_sample_ms) ==
    LET delta == rtt_sample_ms - r.srtt_ms
        abs_delta == IF delta >= 0 THEN delta ELSE -delta
        srtt == IF ~r.rtt_initialized THEN rtt_sample_ms
                ELSE (8 * r.srtt_ms + delta) \div 8
        rttvar == IF ~r.rtt_initialized THEN rtt_sample_ms \div 2
                  ELSE (3 * r.rttvar_ms + abs_delta) \div 4
    IN  [r EXCEPT !.srtt_ms = srtt, !.rttvar_ms = rttvar, !.rtt_initialized = TRUE,
                  !.rto_ms = srtt + 4 * rttvar]

\* rtt_alpha = 1/8 and rtt_beta = 1/4, truncated as the casts to uint64_t do
update_rtt(r, rtt_sample_ms) ==
    LET delta == rtt_sample_ms - r.srtt_ms
        abs_delta == IF delta >= 0 THEN delta ELSE -delta
        srtt == IF ~r.rtt_initialized THEN rtt_sample_ms
                ELSE (8 * r.srtt_ms + delta) \div 8
        rttvar == IF ~r.rtt_initialized THEN rtt_sample_ms \div 2
                  ELSE (3 * r.rttvar_ms + abs_delta) \div 4
    IN  [r EXCEPT !.srtt_ms = srtt, !.rttvar_ms = rttvar, !.rtt_initialized = TRUE,
                  !.rto_ms = Min(Max(srtt + 4 * rttvar, r.config.min_rto_ms),
                                 r.config.max_rto_ms)]

ack_packetNoKarn(r, seq, ack_time_ms) ==
    IF seq \notin DOMAIN r.unacked THEN r
    ELSE LET e == r.unacked[seq]
             r1 == update_rtt(r, ack_time_ms - e.send_time_ms)
         IN  [r1 EXCEPT !.unacked_bytes = @ - e.size, !.unacked = MapRemove(@, seq)]

\* the clocks handed to the manager never run backwards, so the unsigned
\* differences of two times are the plain ones
ack_packet(r, seq, ack_time_ms) ==
    IF seq \notin DOMAIN r.unacked THEN r
    ELSE LET e == r.unacked[seq]
             r1 == IF e.retransmit_count = 0
                   THEN update_rtt(r, ack_time_ms - e.send_time_ms) ELSE r
         IN  [r1 EXCEPT !.unacked_bytes = @ - e.size, !.unacked = MapRemove(@, seq)]

RECURSIVE AckEach(_, _, _)
\* ack_packet for every sequence of the set seqs, in ascending order
AckEach(r, seqs, ack_time_ms) ==
    IF seqs = {} THEN r
    ELSE LET q == MinOf(seqs)
         IN  AckEach(ack_packet(r, q, ack_time_ms), seqs \ {q}, ack_time_ms)

process_sackNoBitmap(r, ack_number, bitmap, ack_time_ms) ==
    AckEach(r, {q \in DOMAIN r.unacked : q <= ack_number}, ack_time_ms)

process_sack(r, ack_number, bitmap, ack_time_ms) ==
    LET r1 == AckEach(r, {q \in DOMAIN r.unacked : q <= ack_number}, ack_time_ms)
    IN  AckEach(r1, {UAdd(ack_number, 1 + i) : i \in bitmap}, ack_time_ms)

RECURSIVE RetransmitLoopNoBackoff(_, _, _)
RetransmitLoopNoBackoff(r, todo, now) ==
    IF todo = {} THEN [r |-> r, resent |-> <<>>, to_drop |-> {}]
    ELSE LET q == MinOf(todo)
             e == r.unacked[q]
         IN  IF now - e.last_sent_ms < r.rto_ms
             THEN RetransmitLoopNoBackoff(r, todo \ {q}, now)
             ELSE IF e.retransmit_count >= r.config.max_retries
             THEN LET n == RetransmitLoopNoBackoff(r, todo \ {q}, now)
                  IN  [n EXCEPT !.to_drop = @ \cup {q}]
             ELSE LET r1 == [r EXCEPT !.unacked[q].last_sent_ms = now,
                                      !.unacked[q].retransmit_count = @ + 1,
                                      !.total_retransmits = @ + 1]
                      n == RetransmitLoopNoBackoff(r1, todo \ {q}, now)
                  IN  [n EXCEPT !.resent = <<[seq |-> q, data |-> e.data]>> \o @]

RECURSIVE RetransmitLoop(_, _, _)
\* The first loop of retransmit_expired over the entries `todo`, ascending:
\* [r |-> the manager, resent |-> the (seq, data) handed to the retransmit
\* callback in order, to_drop |-> the keys to drop]
RetransmitLoop(r, todo, now) ==
    IF todo = {} THEN [r |-> r, resent |-> <<>>, to_drop |-> {}]
    ELSE LET q == MinOf(todo)
             e == r.unacked[q]
         IN  IF now - e.last_sent_ms < r.rto_ms
             THEN RetransmitLoop(r, todo \ {q}, now)
             ELSE IF e.retransmit_count >= r.config.max_retries
             THEN LET n == RetransmitLoop(r, todo \ {q}, now)
                  IN  [n EXCEPT !.to_drop = @ \cup {q}]
             ELSE LET r1 == [r EXCEPT !.unacked[q].last_sent_ms = now,
                                      !.unacked[q].retransmit_count = @ + 1,
                                      !.total_retransmits = @ + 1,
                                      !.rto_ms = Min(@ * 2, r.config.max_rto_ms)]
                      n == RetransmitLoop(r1, todo \ {q}, now)
                  IN  [n EXCEPT !.resent = <<[seq |-> q, data |-> e.data]>> \o @]

\* check_timeouts(now): the keys of the entries whose timeout has passed
check_timeouts(r, now) ==
    {q \in DOMAIN r.unacked : now - r.unacked[q].last_sent_ms >= r.rto_ms}

RECURSIVE SumOver(_, _)
\* the sum of f over the set S
SumOver(f, S) == IF S = {} THEN 0 ELSE LET x == MinOf(S) IN f[x] + SumOver(f, S \ {x})

\* retransmit_expired(now): [r, resent, dropped]; dropped are the keys handed
\* to the drop callback, each once
retransmit_expired(r, now) ==
    LET l == RetransmitLoop(r, DOMAIN r.unacked, now)
    IN  [r |-> [l.r EXCEPT !.unacked = [q \in DOMAIN @ \ l.to_drop |-> @[q]],
                           !.unacked_bytes =
                               @ - SumOver([q \in l.to_drop |-> l.r.unacked[q].size],
                                           l.to_drop),
                           !.total_drops = @ + Cardinality(l.to_drop)],
         resent |-> l.resent,
         dropped |-> l.to_drop]

(***************************************************************************)
(* The manager on its own.  rt_env says what its user does: the sequences  *)
(* and sizes it registers, the sequences it acknowledges one by one, the   *)
(* (ack_number, bitmap) pairs it feeds to process_sack and how long the    *)
(* clock runs.  rt_hist records what the     *)
(* callbacks saw: resent[q] holds the times of the retransmit callbacks for *)
(* q since q was registered, and lo and hi the smallest and the largest    *)
(* RTT sample.                                                             *)
(***************************************************************************)
RTEnv(config, seqs, sizes, acks, sacks, max_time) ==
    [config |-> config, seqs |-> seqs, sizes |-> sizes, acks |-> acks, sacks |-> sacks,
     max_time |-> max_time]

Sack(ack_number, bitmap) == [ack_number |-> ack_number, bitmap |-> bitmap]

RTMaxSeq == 7

RTBackoffTime == 15

RTRttTime == 6

\* a manager with tight caps; one that holds 1 .. RTMaxSeq and is fed the ack
\* of a receiver that marked {1, 2, 4, 5, 7}; one with initial_rto = 1 and
\* max_retries = 3 watched for RTBackoffTime ticks, and one whose max_rto
\* cuts the backoff short; one whose RTO clamps bite on both sides
RTEnvs ==
    {RTEnv(RetransmissionConfig(2, 1, 4, 1, 2, 3), 1 .. 3, {1, 2}, {1, 3},
           {Sack(1, {1}), Sack(0, {1, 2})}, 2),
     RTEnv(RetransmissionConfig(2, 1, 4, 1, RTMaxSeq + 1, RTMaxSeq + 1), 1 .. RTMaxSeq, {1},
           {}, {Sack(2, {1, 2, 4})}, 0),
     RTEnv(RetransmissionConfig(1, 1, 100, 3, 2, 2), {1}, {1}, {}, {}, RTBackoffTime),
     RTEnv(RetransmissionConfig(1, 1, 2, 2, 2, 2), {1, 2}, {1}, {2}, {}, 5),
     RTEnv(RetransmissionConfig(3, 2, 9, 1, 2, 2), {1, 2}, {1}, {1, 2},
           {Sack(1, {}), Sack(1, {0})}, RTRttTime)}

\* What the latest call was: its name and arguments, the keys the store held
\* when it was made, its return value and the keys it handed to the
\* retransmit callback (in order) and to the drop callback.
RTLast(op, seq, size, ret, sack, x) ==
    [op |-> op, seq |-> seq, size |-> size, ret |-> ret, sack |-> sack,
     stored |-> DOMAIN rt.unacked,
     resent |-> [i \in 1 .. Len(x.resent) |-> x.resent[i].seq], dropped |-> x.dropped]

NoExpiry == [resent |-> <<>>, dropped |-> {}]

RTInitWith(envs) ==
    /\ rt_env \in envs
    /\ rt = RetransmissionInit(rt_env.config)
    /\ rt_now = 0
    /\ rt_hist = [resent |-> [q \in rt_env.seqs |-> <<>>], sampled |-> FALSE, lo |-> 0, hi |-> 0]
    /\ rt_last = [op |-> "none", seq |-> 0, size |-> 0, ret |-> FALSE, sack |-> Sack(0, {}),
                  stored |-> {}, resent |-> <<>>, dropped |-> {}]

\* the RTT samples update_rtt is handed when r becomes r1 at time now
RTSamples(r, r1, now) ==
    {now - r.unacked[q].send_time_ms :
        q \in {x \in DOMAIN r.unacked \ DOMAIN r1.unacked : r.unacked[x].retransmit_count = 0}}

RTSampled(h, samples) ==
    IF samples = {} THEN h
    ELSE LET all == samples \cup (IF h.sampled THEN {h.lo, h.hi} ELSE {})
         IN  [h EXCEPT !.sampled = TRUE,
                       !.lo = CHOOSE x \in all : \A y \in all : x <= y,
                       !.hi = CHOOSE x \in all : \A y \in all : x >= y]

RTRegister ==
    \E seq \in rt_env.seqs, size \in rt_env.sizes :
        /\ rt' = register_packet(rt, seq, seq, size, rt_now)
        /\ rt_hist' = IF RegisterRejects(rt, seq, size) THEN rt_hist
                       ELSE [rt_hist EXCEPT !.resent[seq] = <<>>]
        /\ rt_last' = RTLast("register_packet", seq, size, ~RegisterRejects(rt, seq, size),
                              Sack(0, {}), NoExpiry)
        /\ UNCHANGED <<rt_now, rt_env, rwVars, rbVars, hsVars, tsVars, prVars, extVars, abVars, faVars>>

RTAckPacket ==
    \E seq \in rt_env.acks :
        /\ rt' = ack_packet(rt, seq, rt_now)
        /\ rt_hist' = RTSampled(rt_hist, RTSamples(rt, rt', rt_now))
        /\ rt_last' = RTLast("ack_packet", seq, 0, FALSE, Sack(0, {}), NoExpiry)
        /\ UNCHANGED <<rt_now, rt_env, rwVars, rbVars, hsVars, tsVars, prVars, extVars, abVars, faVars>>

RTProcessSack ==
    \E sack \in rt_env.sacks :
        /\ rt' = process_sack(rt, sack.ack_number, sack.bitmap, rt_now)
        /\ rt_hist' = RTSampled(rt_hist, RTSamples(rt, rt', rt_now))
        /\ rt_last' = RTLast("process_sack", 0, 0, FALSE, sack, NoExpiry)
        /\ UNCHANGED <<rt_now, rt_env, rwVars, rbVars, hsVars, tsVars, prVars, extVars, abVars, faVars>>

RTRetransmitExpired ==
    \E x \in {retransmit_expired(rt, rt_now)} :
        /\ rt' = x.r
        /\ rt_hist' = [rt_hist EXCEPT !.resent =
                          [q \in DOMAIN @ |->
                              IF \E i \in 1 .. Len(x.resent) : x.resent[i].seq = q
                              THEN Append(@[q], rt_now) ELSE @[q]]]
        /\ rt_last' = RTLast("retransmit_expired", 0, 0, FALSE, Sack(0, {}), x)
        /\ UNCHANGED <<rt_now, rt_env, rwVars, rbVars, hsVars, tsVars, prVars, extVars, abVars, faVars>>

RTTick ==
    /\ rt_now < rt_env.max_time
    /\ rt_now' = rt_now + 1
    /\ rt_last' = RTLast("tick", 0, 0, FALSE, Sack(0, {}), NoExpiry)
    /\ UNCHANGED <<rt, rt_env, rt_hist, rwVars, rbVars, hsVars, tsVars, prVars, extVars,
                   abVars, faVars>>

(***************************************************************************)
(* FragmentAssembler (src/src/mux/fragment_assembler.cpp).  An assembler   *)
(* is [config, pending, callback]; pending maps a message id to            *)
(* [total_fragments, fragments, first_fragment_time_ms, total_bytes];      *)
(* fragments maps an index to its payload, a sequence of bytes.            *)
(***************************************************************************)
TSMaxPendingMessages == 1

TSMaxFragmentsPerMessage == 2

TSMaxMessageSize == 4

TSFragmentTimeout == 2

FragmentAssemblerConfig(pending, fragments, size, timeout) ==
    [max_pending_messages |-> pending, max_fragments_per_message |-> fragments,
     max_message_size |-> size, fragment_timeout_ms |-> timeout]

\* The assembler configuration of the modelled sessions
TSFragment ==
    FragmentAssemblerConfig(TSMaxPendingMessages, TSMaxFragmentsPerMessage,
                            TSMaxMessageSize, TSFragmentTimeout)

FragmentAssemblerInit(config, cb) ==
    [config |-> config, pending |-> EmptyMap, callback |-> cb]

RECURSIVE ConcatFrom(_, _, _)
\* The loop of try_assemble from index i on: the payloads of i, i + 1, ...,
\* total - 1 in that order, or "nullopt" when an index is missing
ConcatFrom(msg, i, bytes) ==
    IF i >= msg.total_fragments THEN [ok |-> TRUE, data |-> bytes]
    ELSE IF i \notin DOMAIN msg.fragments THEN [ok |-> FALSE, data |-> <<>>]
    ELSE ConcatFrom(msg, i + 1, bytes \o msg.fragments[i])

try_assembleDescending(msg) ==
    LET RECURSIVE Down(_, _)
        Down(i, bytes) ==
            IF i >= msg.total_fragments THEN [ok |-> TRUE, data |-> bytes]
            ELSE Down(i + 1, msg.fragments[i] \o bytes)
    IN  IF Cardinality(DOMAIN msg.fragments) # msg.total_fragments
        THEN [ok |-> FALSE, data |-> <<>>]
        ELSE Down(0, <<>>)

\* try_assemble: [ok |-> FALSE] stands for std::nullopt
try_assemble(msg) ==
    IF Cardinality(DOMAIN msg.fragments) # msg.total_fragments
    THEN [ok |-> FALSE, data |-> <<>>]
    ELSE ConcatFrom(msg, 0, <<>>)

\* add_fragment: [f |-> the assembler after the call, assembled |-> whether
\* the assemble callback ran, data |-> the payload it was given, ret |-> the
\* return value]
add_fragment(f, message_id, fragment_index, total_fragments, payload, timestamp_ms) ==
    LET reject(g) == [f |-> g, assembled |-> FALSE, data |-> <<>>, ret |-> FALSE]
    IN  IF total_fragments = 0 \/ fragment_index >= total_fragments THEN reject(f)
        ELSE IF total_fragments > f.config.max_fragments_per_message THEN reject(f)
        ELSE IF /\ message_id \notin DOMAIN f.pending
                /\ Cardinality(DOMAIN f.pending) >= f.config.max_pending_messages
        THEN reject(f)
        ELSE LET f1 == IF message_id \in DOMAIN f.pending THEN f
                       ELSE [f EXCEPT !.pending = MapPut(@, message_id,
                                [total_fragments |-> total_fragments,
                                 fragments |-> EmptyMap,
                                 first_fragment_time_ms |-> timestamp_ms,
                                 total_bytes |-> 0])]
                 msg == f1.pending[message_id]
             IN  IF msg.total_fragments # total_fragments THEN reject(f1)
                 ELSE IF fragment_index \in DOMAIN msg.fragments THEN reject(f1)
                 ELSE IF msg.total_bytes + Len(payload) > f.config.max_message_size
                 THEN reject(f1)
                 ELSE LET msg1 == [msg EXCEPT
                                      !.fragments = MapPut(@, fragment_index, payload),
                                      !.total_bytes = @ + Len(payload)]
                      IN  IF Cardinality(DOMAIN msg1.fragments) = msg1.total_fragments
                          THEN LET assembled == try_assemble(msg1)
                               IN  [f |-> [f1 EXCEPT !.pending = MapRemove(@, message_id)],
                                    assembled |-> assembled.ok /\ f.callback,
                                    data |-> IF assembled.ok /\ f.callback
                                             THEN assembled.data ELSE <<>>,
                                    ret |-> TRUE]
                          ELSE [f |-> [f1 EXCEPT !.pending[message_id] = msg1],
                                assembled |-> FALSE, data |-> <<>>, ret |-> TRUE]

cleanup_expired(f, now) ==
    [f EXCEPT !.pending =
        [m \in {x \in DOMAIN @ :
                    ~(now - @[x].first_fragment_time_ms > f.config.fragment_timeout_ms)}
            |-> @[m]]]

(***************************************************************************)
(* The assembler on its own: add_fragment with any message id, index,      *)
(* total and payload in any order, and cleanup_expired, on a clock that    *)
(* does not go back.  fa_hist keeps the clock and, per message id, the     *)
(* indices accepted into the pending message in arrival order (arr) and    *)
(* whether a fragment with a stored index was offered since (dup).         *)
(***************************************************************************)
FAMaxId == 2

FAMaxFragments == 3

FAMaxTime == 1

FAIds == 1 .. FAMaxId

FAEnv(config, ids, totals, payloads) ==
    [config |-> config, ids |-> ids, totals |-> totals, payloads |-> payloads]

\* The runs: one message of FAMaxFragments fragments with payloads of
\* different lengths and contents, the empty one included, up to the size
\* limit; two messages pending side by side, with totals the assembler
\* refuses and a size limit two fragments can pass; and more messages than
\* may be pending.
FAEnvs ==
    {FAEnv(FragmentAssemblerConfig(1, FAMaxFragments, FAMaxFragments + 1, 0),
           {1}, {FAMaxFragments}, {<<>>, <<1>>, <<2, 3>>}),
     FAEnv(FragmentAssemblerConfig(FAMaxId, 2, 3, 0),
           FAIds, 0 .. 3, {<<1>>, <<2, 3>>}),
     FAEnv(FragmentAssemblerConfig(1, 2, 1, 0),
           FAIds, 1 .. 2, {<<1>>, <<2, 3>>})}

FALast(op, message_id, fragment_index, total_fragments, payload, r, arr, dup) ==
    [op |-> op, message_id |-> message_id, fragment_index |-> fragment_index,
     total_fragments |-> total_fragments, payload |-> payload, ret |-> r.ret,
     assembled |-> r.assembled, data |-> r.data, arr |-> arr, dup |-> dup]

NoFragment == [ret |-> FALSE, assembled |-> FALSE, data |-> <<>>]

FAInitWith(envs, cbs) ==
    /\ \E env \in envs, cb \in cbs :
          /\ fa = FragmentAssemblerInit(env.config, cb)
          /\ fa_hist = [env |-> env, now |-> 0, arr |-> [m \in FAIds |-> <<>>],
                        dup |-> [m \in FAIds |-> FALSE]]
    /\ fa_last = FALast("none", 0, 0, 0, <<>>, NoFragment, <<>>, FALSE)

\* The history of the pending messages of f1 after a step out of fa_hist
FAHist(f1, arr, dup) ==
    [fa_hist EXCEPT !.arr = [m \in FAIds |-> IF m \in DOMAIN f1.pending THEN arr[m] ELSE <<>>],
                    !.dup = [m \in FAIds |-> m \in DOMAIN f1.pending /\ dup[m]]]

FAAddFragment ==
    \E message_id \in fa_hist.env.ids, fragment_index \in 0 .. FAMaxFragments,
       total_fragments \in fa_hist.env.totals, payload \in fa_hist.env.payloads :
        LET r == add_fragment(fa, message_id, fragment_index, total_fragments, payload,
                              fa_hist.now)
            stored == /\ message_id \in DOMAIN fa.pending
                      /\ fragment_index \in DOMAIN fa.pending[message_id].fragments
            arr == IF r.ret THEN Append(fa_hist.arr[message_id], fragment_index)
                   ELSE fa_hist.arr[message_id]
            dup == fa_hist.dup[message_id] \/ stored
        IN  /\ fa' = r.f
            /\ fa_hist' = FAHist(r.f, [fa_hist.arr EXCEPT ![message_id] = arr],
                                 [fa_hist.dup EXCEPT ![message_id] = dup])
            /\ fa_last' = FALast("add_fragment", message_id, fragment_index,
                                 total_fragments, payload, r, arr, dup)
            /\ UNCHANGED <<rwVars, rbVars, hsVars, tsVars, prVars, extVars, abVars, rtVars>>

FACleanupExpired ==
    LET f1 == cleanup_expired(fa, fa_hist.now)
    IN  /\ fa' = f1
        /\ fa_hist' = FAHist(f1, fa_hist.arr, fa_hist.dup)
        /\ fa_last' = FALast("cleanup_expired", 0, 0, 0, <<>>, NoFragment, <<>>, FALSE)
        /\ UNCHANGED <<rwVars, rbVars, hsVars, tsVars, prVars, extVars, abVars, rtVars>>

FATick ==
    /\ fa_hist.now < FAMaxTime
    /\ fa_hist' = [fa_hist EXCEPT !.now = @ + 1]
    /\ fa_last' = FALast("tick", 0, 0, 0, <<>>, NoFragment, <<>>, FALSE)
    /\ UNCHANGED <<fa, rwVars, rbVars, hsVars, tsVars, prVars, extVars, abVars, rtVars>>

(***************************************************************************)
(* TransportSession (src/src/transport/transport_session.cpp).  A session  *)
(* is a record of its members; the effects it has on the outside are kept  *)
(* in the record too: wire (the datagrams the socket accepted for          *)
(* sending), accepted (the datagrams whose frames were dispatched) and the *)
(* callback counters.  A datagram is [sid, ctr, key, nonce_base, frames]:  *)
(* key and nonce_base name the AEAD key and nonce base that sealed it, and *)
(* opening succeeds exactly under the same pair.                           *)
(***************************************************************************)
NSessionIds == 2

SessionIds == 1 .. NSessionIds

TSPacketsPerSession == 5

TSSecondsPerSession == 1

\* a key that no derivation yields, in the shape hkdf_expand gives a key
FixedKey(tag) ==
    [prk |-> [salt |-> [key |-> tag, data |-> <<>>], ikm |-> [dh |-> {}]], info |-> tag]

\* crypto::SessionKeys{}: all-zero keys and nonce bases
ZeroKeys ==
    [send_key |-> FixedKey("zero"), recv_key |-> FixedKey("zero"),
     send_nonce_base |-> FixedKey("zero"), recv_nonce_base |-> FixedKey("zero")]

SessionRotatorInit(sid) ==
    [current_session_id |-> sid, packets_sent |-> 0, packets_received |-> 0,
     session_start_time |-> 0, current_time |-> 0]

should_rotate(r) ==
    \/ r.packets_sent + r.packets_received >= TSPacketsPerSession
    \/ r.current_time - r.session_start_time >= TSSecondsPerSession

rotate(r, new_id) ==
    [r EXCEPT !.current_session_id = new_id, !.packets_sent = 0, !.packets_received = 0,
              !.session_start_time = r.current_time]

StatsInit ==
    [packets_dropped_rate_limit |-> 0, packets_dropped_replay |-> 0,
     packets_retransmitted |-> 0, session_rotations |-> 0,
     handshake_failures |-> 0, decryption_failures |-> 0]

\* The session after its constructor; has_peer says that config.peer_address
\* names a host.
SessionInit(sid, has_peer) ==
    [state |-> "DISCONNECTED", has_peer |-> has_peer, socket_open |-> FALSE,
     handshake |-> NoValue, send_sequence |-> 1, last_ack_sent |-> 0,
     next_message_id |-> 1, session_keys |-> ZeroKeys,
     rot |-> SessionRotatorInit(sid), replay_window |-> ReplayWindowInit,
     rate |-> RateLimiterInit(TSRateLimiter), ack |-> AckBitmapInit,
     reorder |-> ReorderBufferInit(TRUE), frag |-> FragmentAssemblerInit(TSFragment, TRUE),
     retx |-> RetransmissionInit(TSRetransmission), stats |-> StatsInit,
     alive |-> TRUE, wire |-> {}, accepted |-> {}, data_seqs |-> <<>>,
     state_cb |-> <<>>, error_cb |-> 0, data_cb |-> {}, dispatched |-> <<>>]

\* The callback logs cover one call of the public interface: state_cb lists
\* the states the state callback was invoked with, error_cb counts the error
\* callbacks, data_cb holds the states in which the data callback ran and
\* dispatched lists the datagrams whose frames went to the frame handlers.
BeginCall(s) ==
    [s EXCEPT !.state_cb = <<>>, !.error_cb = 0, !.data_cb = {}, !.dispatched = <<>>]

set_state(s, new_state) ==
    IF s.state # new_state
    THEN [s EXCEPT !.state = new_state, !.state_cb = Append(@, new_state)]
    ELSE s

\* packet_builder_.build(counter) after add_frame(frame)
BuildPacket(s, frame) ==
    [sid |-> s.rot.current_session_id, ctr |-> s.send_sequence,
     key |-> s.session_keys.send_key, nonce_base |-> s.session_keys.send_nonce_base,
     frames |-> <<frame>>]

\* socket_.send_to: the socket takes the datagram when it is open and the
\* system call succeeds (net_ok)
SocketSend(s, net_ok, data) ==
    IF s.socket_open /\ net_ok THEN [s EXCEPT !.wire = @ \cup {data}] ELSE s

\* send_packet_internal: [s |-> the session after the call, ret |-> sent]
send_packet_internal(s, frame, net_ok, now) ==
    IF ~RateCheck(s.rate, 1)
    THEN [s |-> [s EXCEPT !.stats.packets_dropped_rate_limit = @ + 1], ret |-> FALSE]
    ELSE LET packet_data == BuildPacket(s, frame)
             s1 == [s EXCEPT !.rate = try_consume(@, 1)]
             s2 == IF frame.kind = "DATA"
                   THEN [s1 EXCEPT !.retx = register_packet(@, s.send_sequence,
                                                            packet_data, 1, now)]
                   ELSE s1
             sent == s.socket_open /\ net_ok
         IN  IF sent
             THEN [s |-> [SocketSend(s2, net_ok, packet_data) EXCEPT
                              !.send_sequence = @ + 1, !.rot.packets_sent = @ + 1],
                   ret |-> TRUE]
             ELSE [s |-> s2, ret |-> FALSE]

DataFrame(seq, size) == [kind |-> "DATA", sequence_number |-> seq, size |-> size]

AckFrame(ack_number, bitmap) == [kind |-> "ACK", ack_number |-> ack_number, bitmap |-> bitmap]

ControlFrame(type) == [kind |-> "CONTROL", type |-> type]

FragmentFrame(message_id, index, total, size) ==
    [kind |-> "FRAGMENT", message_id |-> message_id, fragment_index |-> index,
     total_fragments |-> total, size |-> size]

HandshakeFrame(msg) == [kind |-> "HANDSHAKE", payload |-> msg]

\* send(): small data goes out as one DATA frame, large data as two fragments
send(s, large, net_ok, now) ==
    IF s.state # "CONNECTED" THEN [s |-> s, ret |-> FALSE]
    ELSE IF ~large
    THEN LET frame == DataFrame(s.send_sequence, 1)
             r == send_packet_internal([s EXCEPT !.send_sequence = @ + 1],
                                       frame, net_ok, now)
         IN  [s |-> IF r.ret
                    THEN [r.s EXCEPT !.data_seqs = Append(@, frame.sequence_number)]
                    ELSE r.s,
              ret |-> r.ret]
    ELSE LET msg_id == s.next_message_id
             s0 == [s EXCEPT !.next_message_id = @ + 1]
             r1 == send_packet_internal(s0, FragmentFrame(msg_id, 0, 2, 1), net_ok, now)
             r2 == send_packet_internal(r1.s, FragmentFrame(msg_id, 1, 2, 1), net_ok, now)
         IN  [s |-> r2.s, ret |-> r1.ret /\ r2.ret]

send_ping(s, net_ok, now) ==
    IF s.state # "CONNECTED" THEN [s |-> s, ret |-> FALSE]
    ELSE send_packet_internal(s, ControlFrame("PING"), net_ok, now)

send_pong(s, net_ok, now) ==
    IF s.state # "CONNECTED" THEN [s |-> s, ret |-> FALSE]
    ELSE send_packet_internal(s, ControlFrame("PONG"), net_ok, now)

send_ack(s, net_ok, now) ==
    LET frame == AckFrame(s.ack.ack_number, s.ack.bitmap)
        r == send_packet_internal(s, frame, net_ok, now)
    IN  [r.s EXCEPT !.last_ack_sent = frame.ack_number]

\* the data callback runs once for each delivered payload
DataCallback(s, n) == IF n > 0 THEN [s EXCEPT !.data_cb = @ \cup {s.state}] ELSE s

handle_data_frame(s, frame, net_ok, now) ==
    LET a == mark_received(s.ack, frame.sequence_number)
        d == ReorderDeliver(ReorderInsert(s.reorder, frame.sequence_number, frame.size, now))
        s1 == DataCallback([s EXCEPT !.ack = a, !.reorder = d.b], Len(d.out))
    IN  IF a.ack_number > s.last_ack_sent + 2 THEN send_ack(s1, net_ok, now) ELSE s1

handle_ack_frame(s, frame, now) ==
    [s EXCEPT !.retx = process_sack(@, frame.ack_number, frame.bitmap, now)]

handle_control_frame(s, frame, net_ok, now) ==
    IF frame.type = "PING" THEN send_pong(s, net_ok, now).s
    ELSE IF frame.type = "CLOSE" THEN set_state(s, "CLOSING")
    ELSE IF frame.type = "RESET" THEN set_state(s, "DISCONNECTED")
    ELSE s

handle_fragment_frame(s, frame, now) ==
    LET r == add_fragment(s.frag, frame.message_id, frame.fragment_index,
                          frame.total_fragments, [i \in 1 .. frame.size |-> 0], now)
    IN  DataCallback([s EXCEPT !.frag = r.f], IF r.assembled THEN 1 ELSE 0)

\* The wall clock of the handshake counts seconds; the model's horizon of a
\* few milliseconds stays within one of them.
HSClock(now) == 0

RECURSIVE SendHandshake(_, _, _, _)
\* the send callback of the handshake, for each message it emits
SendHandshake(s, msgs, net_ok, now) ==
    IF msgs = <<>> THEN s
    ELSE SendHandshake(send_packet_internal(s, HandshakeFrame(Head(msgs)), net_ok, now).s,
                       Tail(msgs), net_ok, now)

handle_handshake_frame(s, frame, net_ok, now) ==
    IF s.handshake = NoValue THEN s
    ELSE LET r == process_message(s.handshake, frame.payload, HSClock(now))
             s1 == SendHandshake([s EXCEPT !.handshake = r.h], r.out, net_ok, now)
             res == result(r.h)
         IN  IF r.ret
             THEN IF res # NoValue
                  THEN set_state([s1 EXCEPT !.session_keys = res.session_keys], "CONNECTED")
                  ELSE [s1 EXCEPT !.stats.handshake_failures = @ + 1, !.error_cb = @ + 1]
             ELSE IF r.h.state = "FAILED"
             THEN [s1 EXCEPT !.stats.handshake_failures = @ + 1, !.error_cb = @ + 1]
             ELSE s1

handle_frame(s, frame, net_ok, now) ==
    IF frame.kind = "DATA" THEN handle_data_frame(s, frame, net_ok, now)
    ELSE IF frame.kind = "ACK" THEN handle_ack_frame(s, frame, now)
    ELSE IF frame.kind = "CONTROL" THEN handle_control_frame(s, frame, net_ok, now)
    ELSE IF frame.kind = "FRAGMENT" THEN handle_fragment_frame(s, frame, now)
    ELSE IF frame.kind = "HANDSHAKE" THEN handle_handshake_frame(s, frame, net_ok, now)
    ELSE s

RECURSIVE HandleFrames(_, _, _, _)
HandleFrames(s, frames, net_ok, now) ==
    IF frames = <<>> THEN s
    ELSE HandleFrames(handle_frame(s, Head(frames), net_ok, now), Tail(frames), net_ok, now)

\* packet_parser_.parse succeeds: the datagram opens under the receive key
Opens(s, packet) ==
    /\ packet.key = s.session_keys.recv_key
    /\ packet.nonce_base = s.session_keys.recv_nonce_base

FateNoReplayCheck(s, packet) ==
    IF packet.sid # s.rot.current_session_id THEN "wrong_session"
    ELSE IF ~Opens(s, packet) THEN "decryption_failed"
    ELSE "dispatched"

\* what handle_received_packet does with a datagram
Fate(s, packet) ==
    IF packet.sid # s.rot.current_session_id THEN "wrong_session"
    ELSE IF ~ReplayCheck(s.replay_window, packet.ctr) THEN "replay"
    ELSE IF ~Opens(s, packet) THEN "decryption_failed"
    ELSE "dispatched"

handle_received_packet(s, packet, net_ok, now) ==
    IF Fate(s, packet) = "wrong_session" THEN s
    ELSE IF Fate(s, packet) = "replay"
    THEN [s EXCEPT !.stats.packets_dropped_replay = @ + 1]
    ELSE LET s1 == [s EXCEPT !.replay_window = ReplayUpdate(@, packet.ctr)]
         IN  IF Fate(s, packet) = "decryption_failed"
             THEN [s1 EXCEPT !.stats.decryption_failures = @ + 1]
             ELSE HandleFrames([s1 EXCEPT !.rot.packets_received = @ + 1,
                                          !.accepted = @ \cup {packet},
                                          !.dispatched = Append(@, packet)],
                               packet.frames, net_ok, now)

\* start(): open_ok is the outcome of socket_.open, kp the fresh key pair
start(s, kp, open_ok, net_ok, now) ==
    IF ~open_ok THEN [s EXCEPT !.socket_open = FALSE, !.error_cb = @ + 1]
    ELSE LET s1 == set_state([s EXCEPT !.socket_open = TRUE,
                                       !.handshake = HandshakeInit(kp)], "HANDSHAKING")
         IN  IF s.has_peer
             THEN LET r == initiate(s1.handshake, HSClock(now))
                  IN  SendHandshake([s1 EXCEPT !.handshake = r.h], r.out, net_ok, now)
             ELSE s1

stop(s) ==
    set_state([set_state(s, "CLOSING") EXCEPT !.socket_open = FALSE], "CLOSED")

RECURSIVE Resend(_, _, _)
\* the retransmit callback, for each stored packet retransmit_expired hands it
Resend(s, packets, net_ok) ==
    IF packets = <<>> THEN s
    ELSE Resend(SocketSend([s EXCEPT !.stats.packets_retransmitted = @ + 1],
                           net_ok, Head(packets).data),
                Tail(packets), net_ok)

process_timeouts(s, net_ok, now) ==
    LET x == retransmit_expired(s.retx, now)
        s1 == Resend([s EXCEPT !.retx = x.r], x.resent, net_ok)
        f == ReorderFlush(s1.reorder, now)
    IN  [DataCallback([s1 EXCEPT !.reorder = f.b], Len(f.out))
            EXCEPT !.frag = cleanup_expired(@, now)]

RECURSIVE RunOnce(_, _, _, _)
\* socket_.run_once: the receive callback for each datagram the socket holds
RunOnce(s, packets, net_ok, now) ==
    IF packets = <<>> \/ ~s.socket_open THEN s
    ELSE RunOnce(handle_received_packet(s, Head(packets), net_ok, now),
                 Tail(packets), net_ok, now)

\* the rotation check of process(): new_id is the random id rotate() draws
ProcessRotation(s, new_id) ==
    IF should_rotate(s.rot)
    THEN [s EXCEPT !.rot = rotate(@, new_id), !.stats.session_rotations = @ + 1]
    ELSE s

\* the ids rotate() can draw when process() reaches it, none when it does not
RotationIds(s) == IF should_rotate(s.rot) THEN SessionIds ELSE {s.rot.current_session_id}

\* process(): packets are the datagrams waiting in the socket.  The session
\* goes through the steps of process() one after the other; the result is the
\* set of sessions it can end in, one for each id rotate() can draw.
process(s, packets, net_ok, now) ==
    UNION { UNION { { ProcessRotation(s2, new_id) : new_id \in RotationIds(s2) }
                    : s2 \in {process_timeouts(s1, net_ok, now)} }
            : s1 \in {RunOnce([s EXCEPT !.rate = refill_now(@, now)], packets, net_ok, now)} }

(***************************************************************************)
(* One session and its environment.  The application calls the public      *)
(* interface and the network hands process() datagrams.  ts_env describes  *)
(* the traffic of a run: the kinds of frames the peer sends, whether its   *)
(* datagrams arrive in any order of their counters, and whether a hostile  *)
(* sender adds datagrams sealed under another key, datagrams of another    *)
(* session and copies of datagrams the session accepted.  ts_calls is the  *)
(* number of calls the run still makes.                                    *)
(***************************************************************************)
TSMaxTime == 1

TSMaxSeq == 6

TSMaxCtr == 2

TSMaxDataSeq == 3

TSMaxStat == 1

TSMaxMessageId == 2

\* The key pair of the peer.  The session draws its own from KeyPairs, below
\* the peer's or equal to it.
TSPeerKey == NKeys

\* the frames of each kind the peer puts into datagrams
TSFramesOf(kind) ==
    IF kind = "DATA" THEN {DataFrame(q, 1) : q \in 1 .. TSMaxDataSeq}
    ELSE IF kind = "ACK" THEN {AckFrame(TSMaxSeq, {}), AckFrame(0, {2})}
    ELSE IF kind = "CONTROL"
    THEN {ControlFrame(t) : t \in {"PING", "PONG", "CLOSE", "RESET"}}
    ELSE IF kind = "FRAGMENT" THEN {FragmentFrame(1, i, 2, 1) : i \in 0 .. 1}
    ELSE {HandshakeFrame(HSMessage(t, 0, <<TSPeerKey>>, PSK)) : t \in {MSG_INIT, MSG_RESPONSE}}
         \cup {HandshakeFrame(HSMessage(MSG_FINISH, 0, <<>>, PSK))}

TSFrames(kinds) == UNION {TSFramesOf(kind) : kind \in kinds}

\* handshake frames and the frames of one more group of kinds
TSTraffic == {{"HANDSHAKE", "CONTROL"}, {"HANDSHAKE", "DATA", "ACK"}, {"HANDSHAKE", "FRAGMENT"}}

Datagram(sid, ctr, key, nonce_base, frame) ==
    [sid |-> sid, ctr |-> ctr, key |-> key, nonce_base |-> nonce_base, frames |-> <<frame>>]

\* the counter of the peer's next datagram when they arrive in order
NextPeerCtr(s) ==
    IF s.replay_window.initialized THEN s.replay_window.highest_seq + 1 ELSE 1

\* The datagrams that can arrive at session s.  A datagram that does not
\* open, or that names another session, is dropped whatever it holds, so one
\* frame stands for all.
TSInputs(s, env) ==
    LET ctrs == IF env.any_ctr THEN 1 .. TSMaxCtr ELSE {NextPeerCtr(s)}
    IN  {Datagram(s.rot.current_session_id, c, s.session_keys.recv_key,
                  s.session_keys.recv_nonce_base, f) : c \in ctrs, f \in TSFrames(env.kinds)}
        \cup (IF env.hostile
              THEN {Datagram(s.rot.current_session_id, c, FixedKey("other"),
                             FixedKey("other"), ControlFrame("PING")) : c \in ctrs}
                   \cup {Datagram(i, 1, s.session_keys.recv_key,
                                  s.session_keys.recv_nonce_base, ControlFrame("PING")) :
                            i \in SessionIds \ {s.rot.current_session_id}}
                   \cup s.accepted
              ELSE {})

\* the bounds of the exploration
TSBounded(s) ==
    /\ s.send_sequence <= TSMaxSeq
    /\ s.next_message_id <= TSMaxMessageId
    /\ \A n \in DOMAIN s.stats : s.stats[n] <= TSMaxStat
    /\ s.retx.total_retransmits <= TSMaxStat
    /\ s.retx.total_drops <= TSMaxStat
    /\ s.handshake # NoValue => Len(s.handshake.transcript) <= HSMaxTranscript

NoPacket == [none |-> TRUE]

\* What the latest call was: its name, the state it found, and for a datagram
\* that reached handle_received_packet whether the session had accepted that
\* very datagram before, whether it names the session's current id and
\* whether its counter is one no accepted datagram carried.
TSLast(op, s, packet) ==
    [op |-> op, from |-> s.state,
     replayed |-> s.socket_open /\ packet \in s.accepted,
     sid_current |-> packet # NoPacket /\ packet.sid = s.rot.current_session_id,
     fresh |-> /\ packet # NoPacket
               /\ s.socket_open
               /\ \A p \in s.accepted : p.ctr # packet.ctr]

TSInitWith(envs, calls) ==
    /\ \E has_peer \in BOOLEAN : sess = SessionInit(1, has_peer)
    /\ ts_now = 0
    /\ ts_last = TSLast("none", sess, NoPacket)
    /\ ts_env \in envs
    /\ ts_calls = calls

TSCall(op, s, packet) ==
    /\ sess.alive
    /\ ts_calls > 0
    /\ TSBounded(s)
    /\ sess' = s
    /\ ts_last' = TSLast(op, sess, packet)
    /\ ts_calls' = ts_calls - 1
    /\ UNCHANGED <<ts_now, ts_env, rwVars, rbVars, hsVars, prVars, muxVars, extVars>>

TSStart ==
    \E kp \in KeyPairs, open_ok \in BOOLEAN, net_ok \in BOOLEAN :
        TSCall("start", start(BeginCall(sess), kp, open_ok, net_ok, ts_now), NoPacket)

TSStop == TSCall("stop", stop(BeginCall(sess)), NoPacket)

\* ~TransportSession(): stop(), and the object is gone
TSDestroy == TSCall("destroy", [stop(BeginCall(sess)) EXCEPT !.alive = FALSE], NoPacket)

TSSend ==
    \E large \in BOOLEAN, net_ok \in BOOLEAN :
        TSCall("send", send(BeginCall(sess), large, net_ok, ts_now).s, NoPacket)

TSSendPing ==
    \E net_ok \in BOOLEAN :
        TSCall("send_ping", send_ping(BeginCall(sess), net_ok, ts_now).s, NoPacket)

\* process() with no datagram waiting
TSProcessIdle ==
    \E net_ok \in BOOLEAN :
        \E s \in process(BeginCall(sess), <<>>, net_ok, ts_now) :
            TSCall("process", s, NoPacket)

\* process() with the datagram packet waiting
TSProcessOf(packet) ==
    \E net_ok \in BOOLEAN :
        \E s \in process(BeginCall(sess), <<packet>>, net_ok, ts_now) :
            TSCall("process", s, packet)

TSProcessPacket == \E packet \in TSInputs(sess, ts_env) : TSProcessOf(packet)

\* The DATA datagrams of the peer: send() numbers the frame with
\* send_sequence_++ and send_packet_internal seals it under the counter that
\* follows.  A datagram that got lost arrives when the peer's retransmission
\* manager sends the stored bytes again, after datagrams sent later.
TSPeerSeqs == {3, 4, 3 + WINDOW_SIZE}

TSPeerData(s) ==
    {Datagram(s.rot.current_session_id, q + 1, s.session_keys.recv_key,
              s.session_keys.recv_nonce_base, DataFrame(q, 1)) : q \in TSPeerSeqs}

\* process() of a connected session with a DATA datagram of the peer that
\* has not arrived before
TSProcessData ==
    /\ sess.state = "CONNECTED"
    /\ \E packet \in TSPeerData(sess) \ sess.accepted : TSProcessOf(packet)

TSTick ==
    /\ sess.alive
    /\ ts_now < TSMaxTime
    /\ ts_now' = ts_now + 1
    /\ UNCHANGED <<sess, ts_last, ts_env, ts_calls, rwVars, rbVars, hsVars, prVars, muxVars, extVars>>

(***************************************************************************)
(* Two sessions and the network between them: I is configured with a peer  *)
(* address, R without one.  pr_net[e] holds the datagrams on their way to  *)
(* e; each is delivered once, unmodified, when e's socket is open.  The    *)
(* rotator of each session draws its id on its own.                        *)
(***************************************************************************)
Peers == {"I", "R"}

\* The outcomes of socket_.send_to: I sends to a proper address; R sends to
\* the empty host name of its configuration, which the resolver may or may
\* not turn into an address.
SendOutcomes(e) == IF e = "I" THEN {TRUE} ELSE BOOLEAN

PairInit ==
    /\ \E id_i \in SessionIds, id_r \in SessionIds :
          pr = [e \in Peers |-> IF e = "I" THEN SessionInit(id_i, TRUE)
                                ELSE SessionInit(id_r, FALSE)]
    /\ pr_net = [e \in Peers |-> {}]

\* session e becomes s; what it put on the wire travels to the other one
PairStep(e, s, taken) ==
    /\ pr' = [pr EXCEPT ![e] = s]
    /\ pr_net' = [x \in Peers |-> IF x = e THEN pr_net[e] \ taken
                                 ELSE pr_net[x] \cup (s.wire \ pr[e].wire)]
    /\ UNCHANGED <<rwVars, rbVars, hsVars, tsVars, muxVars, extVars>>

PairStart(e) ==
    /\ pr[e].handshake = NoValue
    /\ \E kp \in KeyPairs, net_ok \in SendOutcomes(e) :
          PairStep(e, start(BeginCall(pr[e]), kp, TRUE, net_ok, ts_now), {})

\* process() of e with one datagram delivered
PairReceive(e) ==
    /\ pr[e].socket_open
    /\ \E packet \in pr_net[e], net_ok \in SendOutcomes(e) :
          \E s \in process(BeginCall(pr[e]), <<packet>>, net_ok, ts_now) :
              PairStep(e, s, {packet})

\* process() of e with nothing delivered
PairProcessIdle(e) ==
    /\ pr[e].socket_open
    /\ \E net_ok \in SendOutcomes(e) :
          \E s \in process(BeginCall(pr[e]), <<>>, net_ok, ts_now) : PairStep(e, s, {})

\* send() of e with data that fits one DATA frame, once
PairSend(e) ==
    /\ pr[e].state = "CONNECTED"
    /\ pr[e].data_seqs = <<>>
    /\ DOMAIN pr[e].retx.unacked = {}
    /\ pr[e].retx.total_drops = 0
    /\ \E net_ok \in SendOutcomes(e) :
          PairStep(e, send(BeginCall(pr[e]), FALSE, net_ok, ts_now).s, {})

PairMaxTime == 3

\* The clock of the two sessions.  The network is faster than the clock: a
\* millisecond passes when every datagram sent has been delivered.
PairTick ==
    /\ ts_now < PairMaxTime
    /\ \A e \in Peers : pr_net[e] = {}
    /\ ts_now' = ts_now + 1
    /\ UNCHANGED <<sess, ts_last, ts_env, ts_calls, rwVars, rbVars, hsVars, prVars, muxVars,
                   extVars>>

(***************************************************************************)
(* The packet codec (src/src/packet/packet_builder.cpp, packet_parser.cpp, *)
(* frame.cpp).  Bytes are numbers 0 .. 255 and buffers are sequences of    *)
(* them.  A frame is a record of its type and fields.  A packet is         *)
(* [header, box]: the 16 header bytes and what crypto::encrypt made of the *)
(* payload, [key, nonce, plaintext, ad], which crypto::decrypt opens       *)
(* exactly under the same key, nonce and additional data; its length is    *)
(* that of the plaintext plus the tag.  Field values stay below 2^24, so   *)
(* the upper bytes of a wider field are 0.                                 *)
(***************************************************************************)
DATA == 1

ACK == 2

CONTROL == 3

FRAGMENT == 4

HANDSHAKE == 16

SESSION_ROTATE == 32

PacketHeaderSize == 16

FrameHeaderSize == 4

POLY1305_TAG_SIZE == 16

ByteMod == 256

LengthMod == 65536

WriteSwapped(value, n) ==
    [i \in 1 .. n |-> IF i = n THEN (value \div ByteMod) % ByteMod
                      ELSE IF i = n - 1 THEN value % ByteMod
                      ELSE IF n - i >= 3 THEN 0
                      ELSE (value \div ByteMod ^ (n - i)) % ByteMod]

\* write_u64, write_u32, write_u16: the n bytes of value, most significant first
WriteBE(value, n) ==
    [i \in 1 .. n |-> IF n - i >= 3 THEN 0 ELSE (value \div ByteMod ^ (n - i)) % ByteMod]

RECURSIVE ReadBE(_)
\* read_u64, read_u32, read_u16
ReadBE(data) ==
    IF data = <<>> THEN 0
    ELSE ReadBE(SubSeq(data, 1, Len(data) - 1)) * ByteMod + data[Len(data)]

DataFrameOf(sequence_number, payload) ==
    [type |-> DATA, sequence_number |-> sequence_number, payload |-> payload]

AckFrameOf(ack_number, bitmap, recv_window) ==
    [type |-> ACK, ack_number |-> ack_number, bitmap |-> bitmap, recv_window |-> recv_window]

ControlFrameOf(type, timestamp, data) ==
    [type |-> CONTROL, ctype |-> type, timestamp |-> timestamp, data |-> data]

FragmentFrameOf(message_id, fragment_index, total_fragments, payload) ==
    [type |-> FRAGMENT, message_id |-> message_id, fragment_index |-> fragment_index,
     total_fragments |-> total_fragments, payload |-> payload]

HandshakeFrameOf(stage, payload) == [type |-> HANDSHAKE, stage |-> stage, payload |-> payload]

SessionRotateFrameOf(new_session_id, activation_sequence) ==
    [type |-> SESSION_ROTATE, new_session_id |-> new_session_id,
     activation_sequence |-> activation_sequence]

\* serialize_header(FrameHeader{type, flags, length})
serialize_header(type, flags, length) ==
    <<type, flags, (length \div ByteMod) % ByteMod, length % ByteMod>>

\* the payload serialize_frame writes for a frame
FramePayload(f) ==
    IF f.type = DATA THEN WriteBE(f.sequence_number, 8) \o f.payload
    ELSE IF f.type = ACK
    THEN WriteBE(f.ack_number, 8) \o WriteBE(f.bitmap, 8) \o WriteBE(f.recv_window, 4)
    ELSE IF f.type = CONTROL THEN <<f.ctype>> \o WriteBE(f.timestamp, 8) \o f.data
    ELSE IF f.type = FRAGMENT
    THEN WriteBE(f.message_id, 4) \o WriteBE(f.fragment_index, 2)
             \o WriteBE(f.total_fragments, 2) \o f.payload
    ELSE IF f.type = HANDSHAKE THEN <<f.stage>> \o f.payload
    ELSE f.new_session_id \o WriteBE(f.activation_sequence, 8)

serialize_frame(f) ==
    LET payload == FramePayload(f)
    IN  serialize_header(f.type, 0, Len(payload) % LengthMod) \o payload

\* PacketBuilder(mtu) after set_session_id and set_encryption_key
PacketBuilderInit(mtu, session_id, key, nonce_base) ==
    [mtu |-> mtu, session_id |-> session_id, key |-> key, nonce_base |-> nonce_base,
     payload_buffer |-> <<>>]

remaining_capacity(b) ==
    LET overhead == PacketHeaderSize + POLY1305_TAG_SIZE
    IN  IF b.mtu <= overhead + Len(b.payload_buffer) THEN 0
        ELSE b.mtu - overhead - Len(b.payload_buffer)

\* add_frame: [b |-> the builder after the call, ret |-> the return value]
add_frame(b, frame) ==
    LET serialized == serialize_frame(frame)
    IN  IF Len(b.payload_buffer) + Len(serialized) > remaining_capacity(b)
        THEN [b |-> b, ret |-> FALSE]
        ELSE [b |-> [b EXCEPT !.payload_buffer = @ \o serialized], ret |-> TRUE]

make_nonce(base, counter) == [base |-> base, counter |-> counter]

encrypt(key, nonce, plaintext, additional_data) ==
    [key |-> key, nonce |-> nonce, plaintext |-> plaintext, ad |-> additional_data]

\* decrypt: [plaintext], or NoValue for std::nullopt
decrypt(key, nonce, box, additional_data) ==
    IF box # NoValue /\ box.key = key /\ box.nonce = nonce /\ box.ad = additional_data
    THEN [plaintext |-> box.plaintext]
    ELSE NoValue

\* the empty vector
EmptyPacket == [header |-> <<>>, box |-> NoValue]

PacketSize(packet) ==
    Len(packet.header)
        + (IF packet.box = NoValue THEN 0
           ELSE Len(packet.box.plaintext) + POLY1305_TAG_SIZE)

\* build(packet_counter)
build(b, packet_counter) ==
    IF b.payload_buffer = <<>> THEN EmptyPacket
    ELSE LET header == WriteBE(b.session_id, 8) \o WriteBE(packet_counter, 8)
         IN  [header |-> header,
              box |-> encrypt(b.key, make_nonce(b.nonce_base, packet_counter),
                              b.payload_buffer, header)]

reset(b) == [b EXCEPT !.payload_buffer = <<>>]

\* PacketParser::parse_header: NoValue for std::nullopt
parse_header(packet) ==
    IF PacketSize(packet) < PacketHeaderSize THEN NoValue
    ELSE [session_id |-> ReadBE(SubSeq(packet.header, 1, 8)),
          packet_counter |-> ReadBE(SubSeq(packet.header, 9, 16))]

\* parse_frame: [frame, size], or NoValue for std::nullopt
parse_frame(data) ==
    IF Len(data) < FrameHeaderSize THEN NoValue
    ELSE LET type == data[1]
             length == data[3] * ByteMod + data[4]
             total_size == FrameHeaderSize + length
             payload == SubSeq(data, FrameHeaderSize + 1, total_size)
             from(k) == SubSeq(payload, k + 1, Len(payload))
             field(k, n) == ReadBE(SubSeq(payload, k + 1, k + n))
             some(frame) == [frame |-> frame, size |-> total_size]
         IN  IF Len(data) < total_size THEN NoValue
             ELSE IF type = DATA
             THEN IF Len(payload) < 8 THEN NoValue
                  ELSE some(DataFrameOf(field(0, 8), from(8)))
             ELSE IF type = ACK
             THEN IF Len(payload) < 20 THEN NoValue
                  ELSE some(AckFrameOf(field(0, 8), field(8, 8), field(16, 4)))
             ELSE IF type = CONTROL
             THEN IF Len(payload) < 9 THEN NoValue
                  ELSE some(ControlFrameOf(payload[1], field(1, 8), from(9)))
             ELSE IF type = FRAGMENT
             THEN IF Len(payload) < 8 THEN NoValue
                  ELSE some(FragmentFrameOf(field(0, 4), field(4, 2), field(6, 2), from(8)))
             ELSE IF type = HANDSHAKE
             THEN IF payload = <<>> THEN NoValue
                  ELSE some(HandshakeFrameOf(payload[1], from(1)))
             ELSE IF type = SESSION_ROTATE
             THEN IF Len(payload) < 40 THEN NoValue
                  ELSE some(SessionRotateFrameOf(SubSeq(payload, 1, 32), field(32, 8)))
             ELSE NoValue

RECURSIVE ParseFrames(_, _)
\* the while loop of parse: [frames], or NoValue on an invalid frame
ParseFrames(payload, frames) ==
    IF payload = <<>> THEN [frames |-> frames]
    ELSE LET frame_result == parse_frame(payload)
         IN  IF frame_result = NoValue THEN NoValue
             ELSE ParseFrames(SubSeq(payload, frame_result.size + 1, Len(payload)),
                              Append(frames, frame_result.frame))

\* PacketParser::parse of a parser [key, nonce_base]: [error, packet]
parse(parser, packet) ==
    LET failed(e) == [error |-> e, packet |-> NoValue]
        header == parse_header(packet)
    IN  IF PacketSize(packet) < PacketHeaderSize + POLY1305_TAG_SIZE
        THEN failed("PACKET_TOO_SHORT")
        ELSE LET decrypted == decrypt(parser.key,
                                      make_nonce(parser.nonce_base, header.packet_counter),
                                      packet.box, packet.header)
             IN  IF decrypted = NoValue THEN failed("DECRYPTION_FAILED")
                 ELSE LET frames == ParseFrames(decrypted.plaintext, <<>>)
                      IN  IF frames = NoValue THEN failed("INVALID_FRAME")
                          ELSE [error |-> "SUCCESS",
                                packet |-> [session_id |-> header.session_id,
                                            packet_counter |-> header.packet_counter,
                                            frames |-> frames.frames]]

(***************************************************************************)
(* A builder and a parser with the builder's key and nonce base: frames of *)
(* every type are offered to add_frame in any order, build is called with  *)
(* any counter and its packet parsed, and reset starts the next packet.    *)
(* pk_last keeps the latest call and the frames accepted since the reset.  *)
(***************************************************************************)
PKMtu == 72

PKMtus == {PKMtu, PKMtu + 24}

\* values of one, two and three significant bytes
PKSessionIds == {7, 65793}

PKCounters == {1, 70000}

PKFrames ==
    {DataFrameOf(258, payload) : payload \in {<<>>, <<9, 0>>}}
    \cup {AckFrameOf(65793, 255, 65536)}
    \cup {ControlFrameOf(type, 5, <<>>) : type \in {1, 200}}
    \cup {FragmentFrameOf(3, 1, 2, <<4>>)}
    \cup {HandshakeFrameOf(1, payload) : payload \in {<<>>, <<8, 8>>}}
    \cup {SessionRotateFrameOf([i \in 1 .. 32 |-> i], 9)}

PKLast(op, ret, size, remaining, accepted, packet, parsed) ==
    [op |-> op, ret |-> ret, size |-> size, remaining |-> remaining,
     accepted |-> accepted, packet |-> packet, parsed |-> parsed]

PKInitWith(mtus, ids) ==
    /\ \E mtu \in mtus, session_id \in ids :
          pk = PacketBuilderInit(mtu, session_id, FixedKey("k"), FixedKey("n"))
    /\ pk_last = PKLast("none", FALSE, 0, 0, <<>>, EmptyPacket, NoValue)

PKAddFrame ==
    \E frame \in PKFrames :
        LET r == add_frame(pk, frame)
        IN  /\ pk' = r.b
            /\ pk_last' = PKLast("add_frame", r.ret, Len(serialize_frame(frame)),
                                 remaining_capacity(pk),
                                 IF r.ret THEN Append(pk_last.accepted, frame)
                                 ELSE pk_last.accepted,
                                 EmptyPacket, NoValue)
            /\ UNCHANGED <<rwVars, rbVars, hsVars, tsVars, prVars, muxVars, rlVars, fdVars>>

PKBuild ==
    \E packet_counter \in PKCounters :
        LET packet == build(pk, packet_counter)
            parser == [key |-> pk.key, nonce_base |-> pk.nonce_base]
        IN  /\ pk_last' = PKLast("build", TRUE, packet_counter, remaining_capacity(pk),
                                 pk_last.accepted, packet, parse(parser, packet))
            /\ UNCHANGED <<pk, rwVars, rbVars, hsVars, tsVars, prVars, muxVars, rlVars, fdVars>>

PKReset ==
    /\ pk' = reset(pk)
    /\ pk_last' = PKLast("reset", TRUE, 0, remaining_capacity(pk), <<>>, EmptyPacket, NoValue)
    /\ UNCHANGED <<rwVars, rbVars, hsVars, tsVars, prVars, muxVars, rlVars, fdVars>>

(***************************************************************************)
(* TransportSession::fragment_data (src/src/transport/transport_session    *)
(* .cpp).  The loop runs one iteration at a time: fd holds the length of   *)
(* the data, the locals msg_id, total_fragments, i and offset, the vector  *)
(* of fragments built so far and the member next_message_id_.  A fragment  *)
(* is [message_id, fragment_index, total_fragments, size], size being the  *)
(* length of its payload.  The 16-bit fragment_index and total_fragments   *)
(* are kept at a width of FragIndexBits bits.                              *)
(***************************************************************************)
FragIndexBits == 2

FragIndexMod == 2 ^ FragIndexBits

\* an MTU that leaves two bytes for the payload of a fragment
FDMtu == PacketHeaderSize + FrameHeaderSize + 8 + POLY1305_TAG_SIZE + 2

FDMaxLen == 16

FDMaxPushed == 9

FDMaxCalls == 2

max_fragment == FDMtu - PacketHeaderSize - FrameHeaderSize - 8 - POLY1305_TAG_SIZE

FDInit ==
    [pc |-> "idle", len |-> 0, msg_id |-> 0, total_fragments |-> 0, i |-> 0, offset |-> 0,
     fragments |-> <<>>, next_message_id |-> 1]

\* fragment_data(data) up to the loop
FDCall ==
    \E len \in 0 .. FDMaxLen :
        /\ fd.pc \in {"idle", "returned"}
        /\ fd.next_message_id <= FDMaxCalls
        /\ fd' = [pc |-> "loop", len |-> len, msg_id |-> fd.next_message_id,
                  total_fragments |-> (len + max_fragment - 1) \div max_fragment,
                  i |-> 0, offset |-> 0, fragments |-> <<>>,
                  next_message_id |-> fd.next_message_id + 1]
        /\ UNCHANGED <<rwVars, rbVars, hsVars, tsVars, prVars, muxVars, rlVars, pkVars>>

\* one iteration of for (uint16_t i = 0; i < total_fragments; ++i)
FDLoop ==
    /\ fd.pc = "loop"
    /\ fd.i < fd.total_fragments
    /\ Len(fd.fragments) < FDMaxPushed
    /\ LET chunk_size == Min(max_fragment, fd.len - fd.offset)
       IN  fd' = [fd EXCEPT !.fragments =
                                Append(@, [message_id |-> fd.msg_id,
                                           fragment_index |-> fd.i,
                                           total_fragments |->
                                               fd.total_fragments % FragIndexMod,
                                           size |-> chunk_size]),
                            !.offset = @ + chunk_size,
                            !.i = (@ + 1) % FragIndexMod]
    /\ UNCHANGED <<rwVars, rbVars, hsVars, tsVars, prVars, muxVars, rlVars, pkVars>>

\* the loop condition is false: return fragments
FDReturn ==
    /\ fd.pc = "loop"
    /\ ~(fd.i < fd.total_fragments)
    /\ fd' = [fd EXCEPT !.pc = "returned"]
    /\ UNCHANGED <<rwVars, rbVars, hsVars, tsVars, prVars, muxVars, rlVars, pkVars>>

(***************************************************************************)
(* Claims                                                                  *)
(***************************************************************************)
BothComplete == hs["A"].state = "COMPLETE" /\ hs["B"].state = "COMPLETE"

TypesOf(transcript) == [i \in 1 .. Len(transcript) |-> transcript[i].type]

\* each endpoint handled exactly INIT, RESPONSE and FINISH, in this order
CleanExchange ==
    /\ BothComplete
    /\ \A e \in Endpoints : TypesOf(hs[e].transcript) = <<MSG_INIT, MSG_RESPONSE, MSG_FINISH>>

KeysSymmetric(a, b) ==
    LET ka == result(hs[a]).session_keys
        kb == result(hs[b]).session_keys
    IN  /\ ka.send_key = kb.recv_key
        /\ ka.recv_key = kb.send_key
        /\ ka.send_nonce_base = kb.recv_nonce_base
        /\ ka.recv_nonce_base = kb.send_nonce_base

\* C1: after a complete INIT -> RESPONSE -> FINISH exchange between two
\* endpoints that share the PSK, whatever the two ephemeral key pairs, the send
\* key and nonce base of each endpoint are the receive key and nonce base of
\* the other.
C1_KeySymmetry == CleanExchange => KeysSymmetric("A", "B")

\* C2: whenever both endpoints are COMPLETE they hold the same session id, also
\* when HMAC-valid messages were duplicated, replayed, reflected to their sender
\* or delivered in a state where their type is illegal.
C2_SameSessionId == BothComplete => hs["A"].session_id = hs["B"].session_id

\* C4: every counter check_and_update accepted is rejected by every later
\* check, and every counter 64 or more below highest() is rejected.
C4_ReplayLaw ==
    /\ \A c \in rw_accepted : ~ReplayCheck(rw, c)
    /\ \A c \in 0 .. WordMax : rw.highest_seq - c >= WINDOW_SIZE => ~ReplayCheck(rw, c)

\* C4 witness: an accepted counter has left the window, another accepted one
\* is still inside it below the highest, and the last call was a rejection.
C4_Witness ==
    /\ \E c \in rw_accepted : rw.highest_seq - c >= WINDOW_SIZE
    /\ \E d \in rw_accepted : d < rw.highest_seq /\ rw.highest_seq - d < WINDOW_SIZE
    /\ rw_last.op = "check_and_update" /\ ~rw_last.ok /\ rw_last.seq \in rw_accepted

vars == <<rwVars, rbVars, hsVars, tsVars, prVars, muxVars, extVars>>

\* C3: within one session no two different datagrams sealed with the same
\* send key are put on the wire with the same packet counter.
C3_NoCounterReuse ==
    \A d1 \in sess.wire, d2 \in sess.wire :
        (d1.key = d2.key /\ d1.nonce_base = d2.nonce_base /\ d1.ctr = d2.ctr) => d1 = d2

\* a datagram handed to handle_received_packet that the session accepted before
ReplayHandled == ts_last'.op = "process" /\ ts_last'.replayed

\* no datagram is dispatched under a packet counter that was dispatched before
DispatchedOnce ==
    \A i \in 1 .. Len(sess'.dispatched) :
        \A p \in sess.accepted : p.ctr # sess'.dispatched[i].ctr

\* C5 (as stated): the frames of a packet counter are dispatched at most once,
\* and a datagram replayed verbatim after it was accepted dispatches no frame
\* and increases stats.packets_dropped_replay by exactly 1.
C5_ReplayCounted ==
    [][/\ ts_last'.op = "process" => DispatchedOnce
       /\ ReplayHandled =>
            /\ sess'.dispatched = <<>>
            /\ sess'.stats.packets_dropped_replay = sess.stats.packets_dropped_replay + 1]_vars

\* C5 (amended): the frames of a packet counter are dispatched at most once,
\* and a datagram replayed verbatim after it was accepted dispatches no frame;
\* it increases stats.packets_dropped_replay by exactly 1 while its session id
\* is still the current one, and leaves the counter alone once the session has
\* rotated to another id.
C5_ReplayDropped ==
    [][/\ ts_last'.op = "process" => DispatchedOnce
       /\ ReplayHandled =>
            /\ sess'.dispatched = <<>>
            /\ sess'.stats.packets_dropped_replay =
                 sess.stats.packets_dropped_replay + (IF ts_last'.sid_current THEN 1 ELSE 0)]_vars

\* a replay of an accepted datagram under the current id has just been counted
C5_Witness ==
    /\ ts_last.op = "process" /\ ts_last.replayed /\ ts_last.sid_current
    /\ sess.dispatched = <<>>
    /\ sess.stats.packets_dropped_replay = 1
    /\ sess.accepted # {}

\* C7: the first DATA frame send() puts on the wire carries data sequence 1
\* and each later one the previous sequence plus one.
C7_DataSequences == \A i \in 1 .. Len(sess.data_seqs) : sess.data_seqs[i] = i

\* C8: an initiator and a responder with the same PSK, whose datagrams are
\* all delivered while both keep calling process(), both reach CONNECTED.
C8_BothConnect == <>(pr["I"].state = "CONNECTED" /\ pr["R"].state = "CONNECTED")

StateChain ==
    {<<"DISCONNECTED", "HANDSHAKING">>, <<"HANDSHAKING", "CONNECTED">>,
     <<"CONNECTED", "CLOSING">>, <<"CLOSING", "CLOSED">>}

\* C9: the session state changes only along DISCONNECTED -> HANDSHAKING ->
\* CONNECTED -> CLOSING -> CLOSED, or to CLOSED on stop(), and a CLOSED
\* session never changes state again.
C9_StateChain ==
    [][sess'.state # sess.state =>
          \/ <<sess.state, sess'.state>> \in StateChain
          \/ /\ sess.state # "CLOSED"
             /\ sess'.state = "CLOSED"
             /\ ts_last'.op \in {"stop", "destroy"}]_vars

\* C10: stop(), also the one the destructor makes, on a CLOSED session leaves
\* the state CLOSED and invokes no state callback.
C10_StopIdempotent ==
    (ts_last.op \in {"stop", "destroy"} /\ ts_last.from = "CLOSED") =>
        (sess.state = "CLOSED" /\ sess.state_cb = <<>>)

\* C11: result().is_initiator is true exactly for the endpoint that became
\* COMPLETE out of INIT_SENT (it called initiate()) and false for the one that
\* became COMPLETE out of RESPONSE_SENT (it handled INIT), however the two
\* public keys compare.
C11_RoleTracked ==
    [][\A e \in Endpoints :
          (hs[e].state # "COMPLETE" /\ hs'[e].state = "COMPLETE" /\ result(hs'[e]) # NoValue)
              => (result(hs'[e]).is_initiator <=> hs[e].state = "INIT_SENT")]_vars

\* the moves of Handshake::state_; handle_init passes through INIT_RECEIVED
\* on its way from IDLE to RESPONSE_SENT within one call
HSChain ==
    {<<"IDLE", "INIT_SENT">>, <<"INIT_SENT", "COMPLETE">>,
     <<"IDLE", "RESPONSE_SENT">>, <<"RESPONSE_SENT", "COMPLETE">>}

\* the (message type, state) pairs a handler acts on
HSLegal == {<<MSG_INIT, "IDLE">>, <<MSG_RESPONSE, "INIT_SENT">>, <<MSG_FINISH, "RESPONSE_SENT">>}

C13_AckContiguous ==
    /\ \A q \in 1 .. ab.ack_number : q \in ab_marked
    /\ (ab.ack_number + 1) \notin ab_marked

\* mark_received(ack_number + 1), in unsigned arithmetic, has just returned
ABMarkedNext == ab_last.op = "mark_received" /\ ab_last.seq = UAdd(ab_last.ack_before, 1)

\* C14 (as stated): bit i of the bitmap is set exactly when sequence
\* ack_number + 1 + i was marked received, and mark_received(ack_number + 1)
\* advances ack_number by at least 1.
C14_BitmapLaw ==
    /\ \A i \in 0 .. (BITMAP_SIZE - 1) :
           i \in ab.bitmap <=> (ab.ack_number + 1 + i) \in ab_marked
    /\ ABMarkedNext => ab.ack_number >= ab_last.ack_before + 1

\* C14 (amended): bit i of the bitmap is set exactly when sequence
\* ack_number + 1 + i was marked received while the tracker was initialized
\* and the sequence at most 64 past the ack number of that moment, and
\* mark_received(ack_number + 1) advances ack_number by at least 1 unless
\* ack_number is the largest representable value.
C14_TrackedLaw ==
    /\ \A i \in 0 .. (BITMAP_SIZE - 1) :
           i \in ab.bitmap <=> (ab.ack_number + 1 + i) \in ab_tracked
    /\ (ABMarkedNext /\ ab_last.ack_before < WordMax) =>
           ab.ack_number >= ab_last.ack_before + 1

\* C14 witness: mark_received(ack_number + 1) absorbed a set bit, other bits
\* stay set, and a sequence marked beyond the bitmap is now within 64 of
\* ack_number
C14_Witness ==
    /\ ABMarkedNext /\ ab_last.initialized
    /\ ab.ack_number >= ab_last.ack_before + 2
    /\ ab.bitmap # {}
    /\ \E q \in ab_marked \ ab_tracked :
           q > ab.ack_number /\ q - ab.ack_number - 1 < BITMAP_SIZE

\* C15: process_sack(ack_number, bitmap, t) removes from the store exactly
\* the entries whose sequence is <= ack_number or is ack_number + 1 + i for a
\* set bit i, and leaves every other entry as it was.
C15_SackRemoves ==
    [][rt_last'.op = "process_sack" =>
         LET k == rt_last'.sack
             acked == {q \in DOMAIN rt.unacked :
                          \/ q <= k.ack_number
                          \/ \E i \in k.bitmap : q = k.ack_number + 1 + i}
         IN  /\ DOMAIN rt'.unacked = DOMAIN rt.unacked \ acked
             /\ \A q \in DOMAIN rt'.unacked : rt'.unacked[q] = rt.unacked[q]]_vars

\* C15 witness: the ack of a receiver that marked {1, 2, 4, 5, 7} fed to a
\* store holding 1 .. 7 has left exactly {3, 6}
C15_Witness ==
    /\ rt_last.op = "process_sack" /\ rt_last.sack = Sack(2, {1, 2, 4})
    /\ rt_last.stored = 1 .. 7
    /\ DOMAIN rt.unacked = {3, 6}

\* how often q occurs in the sequence seqs
Occurrences(seqs, q) == Cardinality({i \in 1 .. Len(seqs) : seqs[i] = q})

\* C16: retransmit_expired(t) retransmits or drops an entry only when
\* t - last_sent >= rto, retransmits it once per call and at most max_retries
\* times in all, doubles rto (up to max_rto) with each retransmit, and drops an
\* entry exactly when it expires after max_retries retransmits, with one drop
\* callback and total_drops + 1.
C16_RetryThenDrop ==
    [][rt_last'.op = "retransmit_expired" =>
         /\ \A q \in DOMAIN rt.unacked :
               LET e == rt.unacked[q]
                   n == Occurrences(rt_last'.resent, q)
               IN  IF q \in rt_last'.dropped
                   THEN /\ q \notin DOMAIN rt'.unacked
                        /\ n = 0
                        /\ Len(rt_hist.resent[q]) = rt.config.max_retries
                        /\ rt_now - e.last_sent_ms >= rt.rto_ms
                   ELSE IF n > 0
                   THEN /\ n = 1
                        /\ q \in DOMAIN rt'.unacked
                        /\ rt'.unacked[q].last_sent_ms = rt_now
                        /\ Len(rt_hist'.resent[q]) = Len(rt_hist.resent[q]) + 1
                        /\ Len(rt_hist'.resent[q]) <= rt.config.max_retries
                        /\ rt_now - e.last_sent_ms >= rt.rto_ms
                   ELSE /\ q \in DOMAIN rt'.unacked
                        /\ rt'.unacked[q] = e
                        /\ rt_now - e.last_sent_ms < rt'.rto_ms
         /\ rt_last'.dropped \subseteq DOMAIN rt.unacked
         /\ rt'.rto_ms = Min(rt.rto_ms * 2 ^ Len(rt_last'.resent), rt.config.max_rto_ms)
         /\ rt'.total_drops = rt.total_drops + Cardinality(rt_last'.dropped)]_vars

\* C16 witness: with initial_rto = 1 (100 ms) and max_retries = 3, the packet
\* registered at 0 was retransmitted at 1, 3 and 7 and dropped at 15
C16_Witness ==
    /\ rt.config.initial_rto_ms = 1 /\ rt.config.max_retries = 3
    /\ rt_last.op = "retransmit_expired" /\ rt_last.dropped = {1}
    /\ rt_hist.resent[1] = <<1, 3, 7>>
    /\ rt_now = 15
    /\ rt.total_drops = 1 /\ rt.unacked = EmptyMap

\* C17: the store never holds more than max_unacked_packets entries or
\* max_unacked_bytes bytes, unacked_bytes is the sum of the sizes stored, and
\* a register_packet that would exceed a cap or repeats a stored sequence
\* returns false and changes nothing.
C17_Caps ==
    [][/\ Cardinality(DOMAIN rt'.unacked) <= rt'.config.max_unacked_packets
       /\ rt'.unacked_bytes <= rt'.config.max_unacked_bytes
       /\ rt'.unacked_bytes =
             SumOver([q \in DOMAIN rt'.unacked |-> rt'.unacked[q].size], DOMAIN rt'.unacked)
       /\ rt_last'.op = "register_packet" =>
             LET over == \/ Cardinality(DOMAIN rt.unacked) + 1 > rt.config.max_unacked_packets
                         \/ rt.unacked_bytes + rt_last'.size > rt.config.max_unacked_bytes
                         \/ rt_last'.seq \in DOMAIN rt.unacked
             IN  IF over THEN ~rt_last'.ret /\ rt' = rt
                 ELSE rt_last'.ret /\ rt_last'.seq \in DOMAIN rt'.unacked]_vars

\* C17 witness: a register_packet of a new sequence was refused for the byte
\* cap alone
C17_Witness ==
    /\ rt_last.op = "register_packet" /\ ~rt_last.ret
    /\ rt_last.seq \notin rt_last.stored
    /\ Cardinality(rt_last.stored) < rt.config.max_unacked_packets
    /\ rt.unacked_bytes + rt_last.size > rt.config.max_unacked_bytes
    /\ rt.unacked_bytes <= rt.config.max_unacked_bytes

\* C18: once a sample was taken, min_rto <= rto <= max_rto and srtt lies
\* between the smallest and the largest sample.
C18_RttClamp ==
    rt.rtt_initialized =>
        /\ rt.config.min_rto_ms <= rt.rto_ms /\ rt.rto_ms <= rt.config.max_rto_ms
        /\ rt_hist.sampled
        /\ rt_hist.lo <= rt.srtt_ms /\ rt.srtt_ms <= rt_hist.hi

\* C18 witness: srtt strictly between two samples, with srtt + 4 * rttvar
\* above max_rto
C18_Witness ==
    /\ rt.rtt_initialized
    /\ rt_hist.lo < rt.srtt_ms /\ rt.srtt_ms < rt_hist.hi
    /\ rt.srtt_ms + 4 * rt.rttvar_ms > rt.config.max_rto_ms
    /\ rt.rto_ms = rt.config.max_rto_ms

\* The length of the run of consecutive sequences k, k + 1, ... held in `keys`
RunLength(keys, k) ==
    CHOOSE n \in 0 .. Cardinality(keys) :
        /\ \A i \in 0 .. n - 1 : k + i \in keys
        /\ k + n \notin keys

\* C19: a call of deliver() with next_expected = k hands nothing to the
\* callback and changes nothing while k is not buffered; when the buffer holds
\* k .. k+n (and not k+n+1) it calls the callback exactly n+1 times, with
\* k, k+1, ..., k+n in that order, removes exactly those entries and leaves
\* next_expected = k+n+1, whatever later sequences are buffered.
C19_DeliverRun ==
    [][rb_last'.op = "deliver" =>
          LET k == rb.next_expected
              n == RunLength(DOMAIN rb.buffer, k)
          IN  /\ rb_last'.seq = k
              /\ rb'.next_expected = k + n
              /\ DOMAIN rb'.buffer = DOMAIN rb.buffer \ (k .. k + n - 1)
              /\ \A q \in DOMAIN rb'.buffer : rb'.buffer[q] = rb.buffer[q]
              /\ rb.callback => rb_last'.out = [i \in 1 .. n |-> k + i - 1]
              /\ rb_log' = rb_log \o rb_last'.out
              /\ k \notin DOMAIN rb.buffer => rb' = rb /\ rb_last'.out = <<>>]_vars

\* one deliver() call handed 1, 2, 3 to the callback while 4 was missing and
\* nothing had been delivered before
C19_Witness ==
    /\ rb_last.op = "deliver"
    /\ rb_last.seq = 1
    /\ rb_last.out = <<1, 2, 3>>
    /\ rb_log = <<1, 2, 3>>
    /\ rb.next_expected = 4
    /\ rb.callback

RECURSIVE InIndexOrder(_, _)
\* chunks[0] \o chunks[1] \o ... \o chunks[n - 1]
InIndexOrder(chunks, n) ==
    IF n = 0 THEN <<>> ELSE InIndexOrder(chunks, n - 1) \o chunks[n - 1]

\* C20: the add_fragment call whose fragment is accepted and completes the
\* indices 0 .. total-1 of its message calls the assemble callback once, with
\* the stored chunks concatenated in ascending index order, and ends the
\* pending message; no other call of add_fragment calls it, and a rejected
\* fragment (a duplicate index among them) leaves every pending message as it
\* was, so the arrival order and the duplicates offered do not matter.
C20_AssembleOnce ==
    [][fa_last'.op = "add_fragment" =>
          LET id == fa_last'.message_id
              total == fa_last'.total_fragments
              held == IF id \in DOMAIN fa.pending THEN fa.pending[id].fragments
                      ELSE EmptyMap
              chunks == MapPut(held, fa_last'.fragment_index, fa_last'.payload)
              all == fa_last'.ret /\ DOMAIN chunks = 0 .. total - 1
          IN  /\ all /\ fa.callback =>
                    /\ fa_last'.assembled
                    /\ fa_last'.data = InIndexOrder(chunks, total)
              /\ all => id \notin DOMAIN fa'.pending
              /\ ~all => ~fa_last'.assembled
              /\ fa_last'.ret /\ ~all =>
                    /\ id \in DOMAIN fa'.pending
                    /\ fa'.pending[id].fragments = chunks
                    /\ fa'.pending[id].total_fragments = total
              /\ ~fa_last'.ret =>
                    \A m \in DOMAIN fa.pending :
                        m \in DOMAIN fa'.pending /\ fa'.pending[m] = fa.pending[m]
              /\ \A m \in DOMAIN fa.pending \ {id} :
                    m \in DOMAIN fa'.pending /\ fa'.pending[m] = fa.pending[m]]_vars

\* a message of three fragments that arrived in the order 2, 0, 1, with a
\* duplicate index offered in between, was assembled as chunk 0, chunk 1,
\* chunk 2
C20_Witness ==
    /\ fa_last.op = "add_fragment"
    /\ fa_last.arr = <<2, 0, 1>>
    /\ fa_last.dup
    /\ fa_last.payload = <<2, 3>>
    /\ fa_last.assembled
    /\ fa_last.data = <<1, 2, 3>>

RECURSIVE LogSum(_, _, _, _)
\* the sum of the field of the calls i .. j of the log
LogSum(log, i, j, field) ==
    IF i > j THEN 0 ELSE log[i][field] + LogSum(log, i + 1, j, field)

\* C21: in every run of consecutive try_consume and refill calls whose
\* refill calls total at most 1000 ms, try_consume admits at most
\* packets_per_second + burst_packets packets and at most bytes_per_second +
\* burst_bytes bytes.
C21_WindowBound ==
    \A i \in 1 .. Len(rl_log), j \in 1 .. Len(rl_log) :
        LogSum(rl_log, i, j, "elapsed") <= MsPerSecond =>
            /\ LogSum(rl_log, i, j, "packets")
                   <= rl.config.packets_per_second + rl.config.burst_packets
            /\ LogSum(rl_log, i, j, "bytes")
                   <= rl.config.bytes_per_second + rl.config.burst_bytes

\* a window of exactly one second of refills, taken in two steps, in which
\* packets_per_second + burst_packets packets were admitted, the last one by
\* the latest call
C21_Witness ==
    /\ Len(rl_log) = RLMaxCalls
    /\ rl_log[RLMaxCalls].packets = 1
    /\ LogSum(rl_log, 1, RLMaxCalls, "elapsed") = MsPerSecond
    /\ \E k \in 1 .. RLMaxCalls : rl_log[k].elapsed = 500
    /\ LogSum(rl_log, 1, RLMaxCalls, "packets")
           = rl.config.packets_per_second + rl.config.burst_packets

\* what a parser with the builder's key and nonce base makes of the packet
\* build(counter) returned: the frames accepted since the reset, in their
\* order and with their field values, under the builder's session id and the
\* counter
RoundTrip ==
    /\ pk_last.parsed.error = "SUCCESS"
    /\ pk_last.parsed.packet.frames = pk_last.accepted
    /\ pk_last.parsed.packet.session_id = pk.session_id
    /\ pk_last.parsed.packet.packet_counter = pk_last.size

C23_AcceptsWhatFits ==
    pk_last.op = "add_frame" =>
        LET buffered == Len(pk.payload_buffer) - (IF pk_last.ret THEN pk_last.size ELSE 0)
        IN  /\ pk_last.ret <=> pk_last.size <= pk_last.remaining
            /\ pk_last.ret <=>
                   buffered + pk_last.size <= pk.mtu - PacketHeaderSize - POLY1305_TAG_SIZE

\* C24: when stop() has returned the retransmission store is empty: every
\* entry that was in flight was dropped, and counted as a drop, by the call.
C24_StopEmptiesStore ==
    [][ts_last'.op = "stop" =>
          /\ DOMAIN sess'.retx.unacked = {}
          /\ sess'.retx.total_drops
                 = sess.retx.total_drops + Cardinality(DOMAIN sess.retx.unacked)]_vars

\* C25: the data callback runs only while the session is CONNECTED: no frame
\* received in another state reaches it.
C25_DataOnlyConnected == sess.data_cb \subseteq {"CONNECTED"}

\* C26: a received datagram that fails AEAD authentication leaves the replay
\* window as it was.
C26_ForgedLeavesWindow ==
    [][sess'.stats.decryption_failures # sess.stats.decryption_failures =>
          sess'.replay_window = sess.replay_window]_vars

\* C27: a DATA datagram the peer sends again after every earlier transmission
\* of it was lost passes the replay check and has its frame dispatched,
\* however many other datagrams the session accepted in between.
C27_ResentAccepted ==
    [][ts_last'.op = "process" /\ ts_last'.fresh /\ ts_last'.sid_current =>
          Len(sess'.dispatched) = 1]_vars

\* a send() of data that fits one DATA frame returned false: the session was
\* CONNECTED, no fragment was made and no DATA frame went out
SmallSendFailed ==
    /\ ts_last'.op = "send"
    /\ ts_last'.from = "CONNECTED"
    /\ sess'.next_message_id = sess.next_message_id
    /\ sess'.data_seqs = sess.data_seqs

\* C28: a send() that returns false consumes no data sequence number: the
\* next DATA frame carries the sequence the failed call would have used.
C28_FailedSendKeepsSequence ==
    [][SmallSendFailed => sess'.send_sequence = sess.send_sequence]_vars

\* the responder has put an ACK frame on the wire
AckSent == \E p \in pr["R"].wire : p.frames[1].kind = "ACK"

\* C29: the DATA frame a session accepted is covered by an ACK frame, and the
\* unacknowledged entry of an initiator that sent a single DATA frame over a
\* network that loses nothing is removed by that ACK: it is never dropped for
\* having exhausted its retransmissions.
C29_AckedNotExhausted == AckSent => pr["I"].retx.total_drops = 0

\* C30: every datagram a session sends while HANDSHAKING is a handshake
\* datagram: session id 0, packet counter 0, one HANDSHAKE frame and no AEAD
\* seal.  Handshake frames are sent in no other way, so every datagram on the
\* wire that carries one has that shape.
C30_HandshakeDatagram ==
    \A p \in sess.wire :
        p.frames[1].kind = "HANDSHAKE" => p.sid = 0 /\ p.ctr = 0 /\ p.key = NoValue

\* C31: an endpoint whose process_message failed with KEY_EXCHANGE_FAILED, the
\* key exchange having rejected the public key of an INIT or a RESPONSE, is
\* in the terminal state FAILED.
C31_KeyExchangeFailed ==
    \A e \in Endpoints :
        hs[e].last_error = "KEY_EXCHANGE_FAILED" => hs[e].state = "FAILED"

\* C32: on an initialized window, check(c) of a counter c below the highest
\* with highest - c - 1 < 64 is true exactly when c was not accepted before;
\* every other counter up to the highest is rejected and every counter above
\* the highest is accepted.  Stated for the counters c with c + 64 below the
\* word size, where no sum wraps.
C32_WindowLaw ==
    rw.initialized =>
        \A c \in 0 .. (WordMax - WINDOW_SIZE) :
            ReplayCheck(rw, c) <=>
                IF c < rw.highest_seq /\ rw.highest_seq - c - 1 < WINDOW_SIZE
                THEN c \notin rw_accepted
                ELSE c > rw.highest_seq

\* C33: one retransmit_expired(t) call handles, by retransmitting or by
\* dropping it, every entry check_timeouts(t) returns just before the call,
\* and no other.
C33_HandlesExpired ==
    [][rt_last'.op = "retransmit_expired" =>
          {rt_last'.resent[i] : i \in 1 .. Len(rt_last'.resent)} \cup rt_last'.dropped
              = check_timeouts(rt, rt_now)]_vars

\* C34: when flush(now) returns, now being no earlier than any arrival time,
\* no entry left in the buffer has now - arrival_ts >= max_delay_ms.
C34_FlushLeavesNoExpired ==
    [][\A now \in RBTimes :
           (/\ rb_last'.op = "flush"
            /\ rb' = ReorderFlush(rb, now).b
            /\ \A q \in DOMAIN rb.buffer : rb.buffer[q].ts <= now)
           => \A q \in DOMAIN rb'.buffer : now - rb'.buffer[q].ts < RBMaxDelay]_vars

\* C36: an ack_packet or process_sack call that acknowledges only entries
\* with retransmit_count > 0 leaves srtt, rttvar, rto and the RTT-initialized
\* flag as they were.
C36_KarnsRule ==
    [][(/\ rt_last'.op \in {"ack_packet", "process_sack"}
        /\ \A q \in DOMAIN rt.unacked \ DOMAIN rt'.unacked :
               rt.unacked[q].retransmit_count > 0)
       => /\ rt'.srtt_ms = rt.srtt_ms
          /\ rt'.rttvar_ms = rt.rttvar_ms
          /\ rt'.rto_ms = rt.rto_ms
          /\ rt'.rtt_initialized = rt.rtt_initialized]_vars

\* an ack_packet or process_sack call has just acknowledged an entry that
\* had been retransmitted
C36_Witness ==
    /\ rt_last.op \in {"ack_packet", "process_sack"}
    /\ \E q \in rt_last.stored \ DOMAIN rt.unacked : rt_hist.resent[q] # <<>>

\* C37: with a deliver callback installed, buffered_bytes() is the total size
\* of the payloads the buffer holds, and so 0 when it holds none.
C37_BytesMatchContents ==
    rb.callback =>
        rb.buffered_bytes =
            SumOver([q \in DOMAIN rb.buffer |-> rb.buffer[q].size], DOMAIN rb.buffer)

\* C38: an add_fragment call that returns false leaves the pending messages,
\* their ids and their contents, as they were.
C38_RejectedLeavesPending ==
    [][(fa_last'.op = "add_fragment" /\ ~fa_last'.ret) => fa'.pending = fa.pending]_vars

\* C39: from the same token counts refill(a) then refill(b) yields the token
\* counts of refill(a + b), for the packet tokens when a + b leaves them below
\* burst_packets and for the byte tokens when it leaves them below burst_bytes.
C39_RefillAdditive ==
    \A a \in RLElapsed, b \in RLElapsed :
        LET split == refill(refill(rl, a), b)
            whole == refill(rl, a + b)
        IN  /\ whole.packet_tokens < rl.config.burst_packets
                => split.packet_tokens = whole.packet_tokens
            /\ whole.byte_tokens < rl.config.burst_bytes
                => split.byte_tokens = whole.byte_tokens

RWIdle == rw = ReplayWindowInit /\ rw_accepted = {} /\ rw_last = [op |-> "none", seq |-> 0, ok |-> FALSE]

RBIdle == rb = ReorderBufferInit(TRUE) /\ rb_log = <<>> /\ rb_last = [op |-> "none", seq |-> 0, out |-> <<>>]

HSIdle ==
    /\ hs = [e \in Endpoints |-> HandshakeInit(1)]
    /\ hs_net = {}
    /\ hs_now = 0
    /\ hs_injected = 0
    /\ hs_last = [op |-> "none", ep |-> "A", ret |-> FALSE, type |-> 0, from |-> "IDLE"]

TSIdle ==
    /\ sess = SessionInit(1, FALSE)
    /\ ts_now = 0
    /\ ts_last = TSLast("none", sess, NoPacket)
    /\ ts_env = [kinds |-> {}, any_ctr |-> FALSE, hostile |-> FALSE]
    /\ ts_calls = 0

PRIdle == pr = <<>> /\ pr_net = <<>>

ABIdle == ABInit

RTIdle == RTInitWith({RTEnv(TSRetransmission, {}, {}, {}, {}, 0)})

FAIdle == FAInitWith({FAEnv(TSFragment, {}, {}, {})}, {TRUE})

MuxIdle == ABIdle /\ RTIdle /\ FAIdle

RLIdle == RLInitWith(TSRateLimiter)

PKIdle == PKInitWith({PKMtu}, {0})

FDIdle == fd = FDInit

ExtIdle == RLIdle /\ PKIdle /\ FDIdle

InitRW == RWInit /\ RBIdle /\ HSIdle /\ TSIdle /\ PRIdle /\ MuxIdle /\ ExtIdle

NextRW == RWCheckAndUpdate

SpecRW == InitRW /\ [][NextRW]_vars

InitRB == RBInit /\ RWIdle /\ HSIdle /\ TSIdle /\ PRIdle /\ MuxIdle /\ ExtIdle

NextRB == RBInsert \/ RBDeliver \/ RBFlush \/ RBHandleData

SpecRB == InitRB /\ [][NextRB]_vars

InitHS == HSInit /\ RWIdle /\ RBIdle /\ TSIdle /\ PRIdle /\ MuxIdle /\ ExtIdle

NextHS == HSInitiate \/ HSProcessMessage \/ HSInject \/ HSTick

SpecHS == InitHS /\ [][NextHS]_vars

(***************************************************************************)
(* The ack bitmap on its own, marking sequences in any order.              *)
(***************************************************************************)
InitAB ==
    /\ ABInit
    /\ RWIdle /\ RBIdle /\ HSIdle /\ TSIdle /\ PRIdle /\ RTIdle /\ FAIdle /\ ExtIdle

NextAB == ABMarkReceived

SpecAB == InitAB /\ [][NextAB]_vars

(***************************************************************************)
(* The retransmission manager on its own, in each of its environments.     *)
(***************************************************************************)
InitRT ==
    /\ RTInitWith(RTEnvs)
    /\ RWIdle /\ RBIdle /\ HSIdle /\ TSIdle /\ PRIdle /\ ABIdle /\ FAIdle /\ ExtIdle

NextRT == RTRegister \/ RTAckPacket \/ RTProcessSack \/ RTRetransmitExpired \/ RTTick

SpecRT == InitRT /\ [][NextRT]_vars

(***************************************************************************)
(* The life cycle of a session: an application that starts, stops and      *)
(* destroys it while the peer sends handshake and control frames.          *)
(***************************************************************************)
TSLifeCalls == 4

InitLife ==
    /\ TSInitWith({[kinds |-> {"HANDSHAKE", "CONTROL"}, any_ctr |-> FALSE,
                    hostile |-> FALSE]}, TSLifeCalls)
    /\ RWIdle /\ RBIdle /\ HSIdle /\ PRIdle /\ MuxIdle /\ ExtIdle

NextLife == TSStart \/ TSStop \/ TSDestroy \/ TSProcessIdle \/ TSProcessPacket

SpecLife == InitLife /\ [][NextLife]_vars

(***************************************************************************)
(* The sending side: an application that starts a session and sends data   *)
(* and pings while time passes and the peer sends handshake frames.        *)
(***************************************************************************)
TSSendCalls == 6

InitSend ==
    /\ TSInitWith({[kinds |-> {"HANDSHAKE"}, any_ctr |-> FALSE,
                    hostile |-> FALSE]}, TSSendCalls)
    /\ RWIdle /\ RBIdle /\ HSIdle /\ PRIdle /\ MuxIdle /\ ExtIdle

NextSend == TSStart \/ TSSend \/ TSSendPing \/ TSProcessIdle \/ TSProcessPacket \/ TSTick

SpecSend == InitSend /\ [][NextSend]_vars

(***************************************************************************)
(* The receiving side: a started session that is handed datagrams of every *)
(* kind in any order, hostile ones and replays among them.                 *)
(***************************************************************************)
TSRecvCalls == 4

InitRecv ==
    /\ TSInitWith({[kinds |-> k, any_ctr |-> TRUE, hostile |-> TRUE] : k \in TSTraffic},
                  TSRecvCalls)
    /\ RWIdle /\ RBIdle /\ HSIdle /\ PRIdle /\ MuxIdle /\ ExtIdle

NextRecv == TSStart \/ TSProcessPacket

SpecRecv == InitRecv /\ [][NextRecv]_vars

(***************************************************************************)
(* An initiator and a responder over a network that delivers everything.   *)
(* Both are started, and each keeps calling process() while datagrams for  *)
(* it are on their way.                                                    *)
(***************************************************************************)
InitPair == PairInit /\ RWIdle /\ RBIdle /\ HSIdle /\ TSIdle /\ MuxIdle /\ ExtIdle

NextPair ==
    \/ PairStart("I")
    \/ PairStart("R")
    \/ PairReceive("I")
    \/ PairReceive("R")
    \/ PairProcessIdle("I")
    \/ PairProcessIdle("R")

SpecPair ==
    /\ InitPair
    /\ [][NextPair]_vars
    /\ WF_vars(PairStart("I"))
    /\ WF_vars(PairStart("R"))
    /\ WF_vars(PairReceive("I"))
    /\ WF_vars(PairReceive("R"))
    /\ WF_vars(PairProcessIdle("I"))
    /\ WF_vars(PairProcessIdle("R"))

InitFA ==
    /\ FAInitWith(FAEnvs, BOOLEAN)
    /\ RWIdle /\ RBIdle /\ HSIdle /\ TSIdle /\ PRIdle /\ ABIdle /\ RTIdle /\ ExtIdle

NextFA == FAAddFragment \/ FACleanupExpired \/ FATick

SpecFA == InitFA /\ [][NextFA]_vars

InitRL ==
    /\ RLInitWith(RLConfig)
    /\ RWIdle /\ RBIdle /\ HSIdle /\ TSIdle /\ PRIdle /\ MuxIdle /\ PKIdle /\ FDIdle

NextRL == RLTryConsume \/ RLRefill

SpecRL == InitRL /\ [][NextRL]_vars

InitPK ==
    /\ PKInitWith(PKMtus, PKSessionIds)
    /\ RWIdle /\ RBIdle /\ HSIdle /\ TSIdle /\ PRIdle /\ MuxIdle /\ RLIdle /\ FDIdle

NextPK == PKAddFrame \/ PKBuild \/ PKReset

SpecPK == InitPK /\ [][NextPK]_vars

(***************************************************************************)
(* Closing a session that has data in flight: the application starts the   *)
(* session, sends data once the peer's handshake frames have arrived, and  *)
(* stops it.                                                               *)
(***************************************************************************)
TSCloseCalls == 5

InitClose ==
    /\ TSInitWith({[kinds |-> {"HANDSHAKE"}, any_ctr |-> FALSE,
                    hostile |-> FALSE]}, TSCloseCalls)
    /\ RWIdle /\ RBIdle /\ HSIdle /\ PRIdle /\ MuxIdle /\ ExtIdle

NextClose == TSStart \/ TSSend \/ TSProcessPacket \/ TSStop

SpecClose == InitClose /\ [][NextClose]_vars

(***************************************************************************)
(* The receiving side of retransmission: a started session is handed the   *)
(* peer's handshake frames in order and the peer's DATA datagrams in any   *)
(* order, each when its first transmission or a retransmission gets        *)
(* through.                                                                *)
(***************************************************************************)
TSResendCalls == 5

InitResend ==
    /\ TSInitWith({[kinds |-> {"HANDSHAKE"}, any_ctr |-> FALSE,
                    hostile |-> FALSE]}, TSResendCalls)
    /\ RWIdle /\ RBIdle /\ HSIdle /\ PRIdle /\ MuxIdle /\ ExtIdle

NextResend == TSStart \/ TSProcessPacket \/ TSProcessData

SpecResend == InitResend /\ [][NextResend]_vars

(***************************************************************************)
(* A session driven by periodic process() calls while seconds pass: the    *)
(* application starts it, the peer's handshake frames arrive, and the      *)
(* clock moves on a second at a time once the session is started.          *)
(***************************************************************************)
TSRotateCalls == 4

TSRotateSeconds == 2

TSTickSecond ==
    /\ sess.alive
    /\ sess.socket_open
    /\ ts_now < TSRotateSeconds * MsPerSecond
    /\ ts_now' = ts_now + MsPerSecond
    /\ UNCHANGED <<sess, ts_last, ts_env, ts_calls, rwVars, rbVars, hsVars, prVars, muxVars, extVars>>

InitRotate ==
    /\ TSInitWith({[kinds |-> {"HANDSHAKE"}, any_ctr |-> FALSE,
                    hostile |-> FALSE]}, TSRotateCalls)
    /\ RWIdle /\ RBIdle /\ HSIdle /\ PRIdle /\ MuxIdle /\ ExtIdle

NextRotate == TSStart \/ TSProcessIdle \/ TSProcessPacket \/ TSTickSecond

SpecRotate == InitRotate /\ [][NextRotate]_vars

\* C35: a process() call made seconds_per_session seconds or more after the
\* session was started, no rotation having happened since, rotates the
\* session id.
C35_RotatesOnTime ==
    [][(/\ ts_last'.op = "process"
        /\ sess.socket_open
        /\ sess.stats.session_rotations = 0
        /\ ts_now >= TSSecondsPerSession * MsPerSecond)
       => sess'.stats.session_rotations = 1]_vars

(***************************************************************************)
(* fragment_data on its own, called with data of every length.             *)
(***************************************************************************)
InitFD ==
    /\ fd = FDInit
    /\ RWIdle /\ RBIdle /\ HSIdle /\ TSIdle /\ PRIdle /\ MuxIdle /\ RLIdle /\ PKIdle

NextFD == FDCall \/ FDLoop \/ FDReturn

SpecFD == InitFD /\ [][NextFD]_vars

\* C40: fragment_data never builds more than ceil(len / max_fragment)
\* fragments, and what it returns is exactly that many fragments, all with
\* the message id of the call and total_fragments equal to their number,
\* fragment_index running from 0.
C40_FragmentsOfData ==
    LET total == (fd.len + max_fragment - 1) \div max_fragment
    IN  /\ fd.pc = "loop" => Len(fd.fragments) <= total
        /\ fd.pc = "returned" =>
               /\ Len(fd.fragments) = total
               /\ \A k \in 1 .. Len(fd.fragments) :
                      /\ fd.fragments[k].message_id = fd.msg_id
                      /\ fd.fragments[k].total_fragments = total
                      /\ fd.fragments[k].fragment_index = k - 1

(***************************************************************************)
(* An initiator and a responder over a network that delivers everything,   *)
(* each sending one DATA frame once it is connected, while time passes and *)
(* both keep calling process().                                            *)
(***************************************************************************)
NextAck ==
    \/ NextPair
    \/ PairSend("I")
    \/ PairSend("R")
    \/ PairTick

SpecAck == InitPair /\ [][NextAck]_vars

====
